---- MODULE Spec2Model ----
(***************************************************************************)
(* Depth sorting and polygon cutting of BlenderModelToSVG                  *)
(* (model_to_svg_full.py; the same algorithms are in model_to_svg_lite.py  *)
(* and scene_to_svg.py).                                                   *)
(*                                                                         *)
(* Coordinates are fixed-point: one grid step is 1/POLYGON_CUT_PRECISION   *)
(* of a pixel, so the nudge of a cut is one step and the plane threshold   *)
(* PLANE_DISTANCE_THRESHOLD (0.001) is one step too.  A normal is kept as  *)
(* an integer vector of the same direction as the unit normal the code     *)
(* stores; every test of the code that reads a normal is a sign test or a  *)
(* comparison of a distance, which are written here without a square root. *)
(***************************************************************************)
EXTENDS Integers, Sequences, FiniteSets, TLC

\* ------------------------------------------------------------ constants

\* Grid steps per pixel.
POLYGON_CUT_PRECISION == 1000
\* 0.001 pixel, in grid steps.
PLANE_DISTANCE_THRESHOLD == 1
\* 1E-6 pixel is one CULL_STEPS-th of a grid step.
CULL_STEPS == 1000

\* ------------------------------------------------------------ vectors

Abs(a) == IF a < 0 THEN -a ELSE a
Sgn(a) == IF a > 0 THEN 1 ELSE IF a < 0 THEN -1 ELSE 0
Min2(a, b) == IF a < b THEN a ELSE b
Max2(a, b) == IF a > b THEN a ELSE b

RECURSIVE Gcd(_, _)
Gcd(a, b) == IF b = 0 THEN a ELSE Gcd(b, a % b)

VSub(a, b) == <<a[1] - b[1], a[2] - b[2], a[3] - b[3]>>
VAdd(a, b) == <<a[1] + b[1], a[2] + b[2], a[3] + b[3]>>
VNeg(a) == <<-a[1], -a[2], -a[3]>>
Dot(a, b) == a[1] * b[1] + a[2] * b[2] + a[3] * b[3]
NormSq(a) == Dot(a, a)

\* F applied to the value of e.  An operator stands for its argument's
\* expression wherever it names the argument; the loops below hand their
\* state on through Once so that it is a value, computed once.
Once(F(_), e) == CHOOSE r \in {F(x) : x \in {e}} : TRUE

\* a / b rounded to the nearest integer, b > 0.
RoundDiv(a, b) == (2 * a + b) \div (2 * b)

\* Vector.normalized() / POLYGON_CUT_PRECISION in grid steps: the unit vector
\* of v, each component rounded to the grid (|c| / |v| >= 1/2 rounds to 1).
NudgeDir(v) ==
    [k \in 1..3 |-> IF 4 * v[k] * v[k] >= NormSq(v) THEN Sgn(v[k]) ELSE 0]

\* mathutils.geometry.normal: Newell's sum over the ring, here reduced to the
\* shortest integer vector of its direction instead of to unit length.
RECURSIVE NewellSum(_, _)
NewellSum(verts, i) ==
    IF i > Len(verts) THEN <<0, 0, 0>>
    ELSE LET p == verts[IF i = 1 THEN Len(verts) ELSE i - 1]
             c == verts[i]
         IN VAdd(<<(p[2] - c[2]) * (p[3] + c[3]),
                   (p[3] - c[3]) * (p[1] + c[1]),
                   (p[1] - c[1]) * (p[2] + c[2])>>,
                 NewellSum(verts, i + 1))

get_normal(verts) ==
    LET n == NewellSum(verts, 1)
        g == Gcd(Gcd(Abs(n[1]), Abs(n[2])), Abs(n[3]))
    IN IF g = 0 THEN n ELSE <<n[1] \div g, n[2] \div g, n[3] \div g>>

\* ------------------------------------------------------------ ViewPolygon

\* ViewPolygon.recalculate_bounds: [xMin, xMax, yMin, yMax, zMin, zMax].
RECURSIVE BoundsFrom(_, _, _)
BoundsFrom(verts, i, b) ==
    IF i > Len(verts) THEN b
    ELSE Once(LAMBDA bounds : BoundsFrom(verts, i + 1, bounds),
              <<Min2(verts[i][1], b[1]), Max2(verts[i][1], b[2]),
                Min2(verts[i][2], b[3]), Max2(verts[i][2], b[4]),
                Min2(verts[i][3], b[5]), Max2(verts[i][3], b[6])>>)

recalculate_bounds(verts) ==
    BoundsFrom(verts, 1, <<verts[1][1], verts[1][1], verts[1][2], verts[1][2],
                           verts[1][3], verts[1][3]>>)

\* ViewPolygon(verts, depth, rgb_color, opacity, set_bounds=True).  id and ncut
\* stand for the identity of the Python object: id names the object, ncut
\* counts the cuts that rewrote its vertex list.  A depth is a fraction
\* <<numerator, denominator>>.
ViewPolygon(ident, verts, depth, rgb_color, opacity) ==
    [id |-> ident, ncut |-> 0, verts |-> verts, depth |-> depth,
     rgb_color |-> rgb_color, stroke_color |-> rgb_color,
     opacity |-> opacity, stroke_opacity |-> opacity,
     normal |-> get_normal(verts), marked |-> FALSE,
     bounds |-> recalculate_bounds(verts)]

\* ------------------------------------------------------------ classification

\* distance_point_to_plane(vert, plane.verts[0], plane.normal), times the
\* length of the model's normal.
PlaneSide(plane_polygon, vert) ==
    Dot(VSub(vert, plane_polygon.verts[1]), plane_polygon.normal)

\* DepthSorter.vert_relative_pos: 0 within the threshold, else the sign.
vert_relative_pos(plane_polygon, vert) ==
    LET d == PlaneSide(plane_polygon, vert)
    IN IF d * d < PLANE_DISTANCE_THRESHOLD * PLANE_DISTANCE_THRESHOLD
                    * NormSq(plane_polygon.normal)
       THEN 0
       ELSE IF d > 0 THEN 1 ELSE -1

\* DepthSorter.vert_relative_pos_bool: no threshold, the plane counts as front.
vert_relative_pos_bool(plane_polygon, vert) ==
    PlaneSide(plane_polygon, vert) >= 0

\* DepthSorter.relative_pos: 1 front, -1 behind, 0 in collision.  The loop over
\* the vertices clears all_back at a front vertex and all_front at a vertex
\* behind; a vertex on the plane clears neither.
RECURSIVE RelPosLoop(_, _, _, _, _)
RelPosLoop(plane_polygon, verts, i, all_front, all_back) ==
    IF i > Len(verts)
    THEN IF all_front THEN 1 ELSE IF all_back THEN -1 ELSE 0
    ELSE LET vert_rel_pos == vert_relative_pos(plane_polygon, verts[i])
         IN IF vert_rel_pos = 1
            THEN RelPosLoop(plane_polygon, verts, i + 1, all_front, FALSE)
            ELSE IF vert_rel_pos = -1
            THEN RelPosLoop(plane_polygon, verts, i + 1, FALSE, all_back)
            ELSE RelPosLoop(plane_polygon, verts, i + 1, all_front, all_back)

\* A classification that asks for all_back first.
RelativePosBackFirst(plane_polygon, polygon_p) ==
    IF \A i \in 1..Len(polygon_p.verts) :
           vert_relative_pos(plane_polygon, polygon_p.verts[i]) # 1
    THEN -1
    ELSE IF \A i \in 1..Len(polygon_p.verts) :
                vert_relative_pos(plane_polygon, polygon_p.verts[i]) # -1
    THEN 1
    ELSE 0

relative_pos(plane_polygon, polygon_p) ==
    Once(LAMBDA ring : RelPosLoop(plane_polygon, ring, 1, TRUE, TRUE), polygon_p.verts)

\* ------------------------------------------------------------ cutting

\* DepthSorter.is_fragment: fewer than 3 vertices, or the summed coordinate
\* differences of consecutive vertices (the closing edge is not counted) below
\* POLYGON_CULL_THRESHOLD.
RECURSIVE DifferenceSum(_, _)
DifferenceSum(verts, i) ==
    IF i >= Len(verts) THEN 0
    ELSE Abs(verts[i][1] - verts[i + 1][1]) + Abs(verts[i][2] - verts[i + 1][2])
         + Abs(verts[i][3] - verts[i + 1][3]) + DifferenceSum(verts, i + 1)

is_fragment(verts) ==
    \/ Len(verts) < 3
    \/ DifferenceSum(verts, 1) * CULL_STEPS < 1

\* mathutils.geometry.intersect_line_plane(a, b, plane.verts[0], plane.normal)
\* fails (None, and the TypeError of indexing it) when the line is parallel to
\* the plane.
\* The library takes the line for parallel when the dot product of the unit
\* normal and b - a is at most FLT_EPSILON = 2^-23 in absolute value.  In grid
\* steps and with the model's normal: dot^2 * (2^46 / 10^6) <= |normal|^2.
FLT_EPSILON_RATIO == 70368745

NearlyParallel(dot, normal) ==
    /\ Abs(dot) <= 5
    /\ dot * dot * FLT_EPSILON_RATIO <= NormSq(normal)

IntersectFails(plane_polygon, a, b) ==
    \/ Dot(VSub(b, a), plane_polygon.normal) = 0
    \/ NearlyParallel(Dot(VSub(b, a), plane_polygon.normal), plane_polygon.normal)

\* The point a + t (b - a) of the line on the plane, rounded to the grid.
PointOnLine(a, b, num, den) ==
    [k \in 1..3 |-> a[k] + RoundDiv((b[k] - a[k]) * num, den)]

LineFraction(da, db) ==
    IF da - db > 0 THEN <<da, da - db>> ELSE <<-da, db - da>>

intersect_line_plane(plane_polygon, a, b) ==
    Once(LAMBDA t : PointOnLine(a, b, t[1], t[2]),
         LineFraction(PlaneSide(plane_polygon, a), PlaneSide(plane_polygon, b)))

\* intersect_vert + intersect_dir and intersect_vert - intersect_dir: the cut
\* lies one nudge to either side of the plane.
IntersectPlus(plane_polygon, vert, next_vert) ==
    VAdd(intersect_line_plane(plane_polygon, vert, next_vert),
         NudgeDir(VSub(next_vert, vert)))

IntersectMinus(plane_polygon, vert, next_vert) ==
    VSub(intersect_line_plane(plane_polygon, vert, next_vert),
         NudgeDir(VSub(next_vert, vert)))

\* A loop body that puts the points of a crossing into the rings and leaves
\* the crossing vertex itself out.
CutStepDroppingVertex(plane_polygon, vert, next_vert, currently_in_front, front, back) ==
    IF vert_relative_pos_bool(plane_polygon, vert) = currently_in_front
    THEN IF currently_in_front THEN <<Append(front, vert), back>>
         ELSE <<front, Append(back, vert)>>
    ELSE <<Append(front, IntersectPlus(plane_polygon, vert, next_vert)),
           Append(back, IntersectMinus(plane_polygon, vert, next_vert))>>

\* The body of the loop of cut_conflicting for one vertex:
\* <<front_pol_verts, back_pol_verts>> after it.
CutStep(plane_polygon, vert, next_vert, currently_in_front, front, back) ==
    IF vert_relative_pos_bool(plane_polygon, vert)
    THEN IF currently_in_front
         THEN <<Append(front, vert), back>>
         ELSE IF IntersectFails(plane_polygon, vert, next_vert)
         THEN <<Append(front, vert), Append(back, vert)>>
         ELSE <<Append(Append(front, IntersectMinus(plane_polygon, vert, next_vert)), vert),
                Append(back, IntersectPlus(plane_polygon, vert, next_vert))>>
    ELSE IF currently_in_front
         THEN IF IntersectFails(plane_polygon, vert, next_vert)
              THEN <<Append(front, vert), Append(back, vert)>>
              ELSE <<Append(front, IntersectPlus(plane_polygon, vert, next_vert)),
                     Append(Append(back, IntersectMinus(plane_polygon, vert, next_vert)), vert)>>
         ELSE <<front, Append(back, vert)>>

\* The loop of cut_conflicting over the ring; next_vert is verts[i - 1], the
\* last vertex for the first.
RECURSIVE CutLoop(_, _, _, _, _)
CutLoop(plane_polygon, verts, i, currently_in_front, rings) ==
    IF i > Len(verts) THEN rings
    ELSE Once(LAMBDA cut : CutLoop(plane_polygon, verts, i + 1,
                                   vert_relative_pos_bool(plane_polygon, verts[i]), cut),
              CutStep(plane_polygon, verts[i],
                      verts[IF i = 1 THEN Len(verts) ELSE i - 1],
                      currently_in_front, rings[1], rings[2]))

CutRings(plane_polygon, verts) ==
    Once(LAMBDA ring : CutLoop(plane_polygon, ring, 1,
                               vert_relative_pos_bool(plane_polygon, ring[Len(ring)]),
                               <<<<>>, <<>>>>),
         verts)

\* A result that is never culled: the fragment is returned whatever its ring.
KeptAlways(polygon) ==
    <<[polygon EXCEPT !.bounds = IF polygon.verts = <<>> THEN @
                                 ELSE recalculate_bounds(polygon.verts)]>>

\* A fragment that is kept, as a list of one polygon; None is the empty list.
Kept(polygon) ==
    IF is_fragment(polygon.verts) THEN <<>>
    ELSE <<[polygon EXCEPT !.bounds = recalculate_bounds(polygon.verts)]>>

KeptFragment(polygon) == Once(LAMBDA fragment : Kept(fragment), polygon)

\* "polygon_p.verts = front_pol_verts": the same object, cut once more.
FrontFragment(polygon_p, front) ==
    KeptFragment([polygon_p EXCEPT !.verts = front, !.ncut = @ + 1])

\* A back fragment that is no new object: the cut without its deepcopy.
BackFragmentAliased(polygon_p, back) ==
    KeptFragment([polygon_p EXCEPT !.verts = back, !.ncut = @ + 1])

\* A back fragment built by the constructor from the ring, the fill colour and
\* the opacity, in place of the deepcopy.
BackFragmentConstructed(polygon_p, back) ==
    KeptFragment(ViewPolygon(Append(polygon_p.id, polygon_p.ncut + 1), back,
                             polygon_p.depth, polygon_p.rgb_color, polygon_p.opacity))

\* "polygon_q = deepcopy(polygon_p); polygon_q.verts = back_pol_verts": a new
\* object.
BackFragment(polygon_p, back) ==
    KeptFragment([polygon_p EXCEPT !.verts = back, !.ncut = 0,
                                   !.id = Append(polygon_p.id, polygon_p.ncut + 1)])

CutResult(polygon_p, rings) ==
    <<FrontFragment(polygon_p, rings[1]), BackFragment(polygon_p, rings[2])>>

\* DepthSorter.cut_conflicting: <<front fragment, back fragment>>.
cut_conflicting(plane_polygon, polygon_p) ==
    Once(LAMBDA rings : CutResult(polygon_p, rings),
         CutRings(plane_polygon, polygon_p.verts))

\* ------------------------------------------------------------ input polygons

\* Vertex rings the inputs are drawn from, in grid steps (1000 steps a pixel).
\* Rings 1 and 2 are parallel, 3 and 4 slant through them and through each
\* other, 5 lies in the plane of 1, 6 and 7 meet only with their bounding
\* boxes (at depth 3000) and straddle each other's plane, 8 is 6 moved half a
\* pixel back, 9 passes through 10 inside its outline and 11 through 10 across
\* its outline, 13 and 14 pass through 12 and through each other across their
\* outlines, 15 falls by one grid step of depth over nine pixels, 16 to 19 are
\* triangles a pixel wide in one corner of the region, 19 in the box of 16, 20
\* to 22 are faces whose vertices fall on one point, 20 and 21 on the same one.
Rings ==
    << << <<0, 0, 2000>>, <<4000, 0, 2000>>, <<4000, 2000, 2000>>, <<0, 2000, 2000>> >>,
       << <<0, 0, 4000>>, <<4000, 0, 4000>>, <<4000, 2000, 4000>>, <<0, 2000, 4000>> >>,
       << <<0, 0, 1000>>, <<4000, 0, 5000>>, <<4000, 2000, 5000>>, <<0, 2000, 1000>> >>,
       << <<0, 0, 5000>>, <<0, 2000, 5000>>, <<4000, 2000, 1000>>, <<4000, 0, 1000>> >>,
       << <<4000, 0, 2000>>, <<6000, 0, 2000>>, <<6000, 2000, 2000>> >>,
       << <<1000, 1000, 1000>>, <<3000, 1000, 3000>>, <<2000, 2000, 3000>>, <<1000, 2000, 2000>> >>,
       << <<2000, 1000, 3000>>, <<4000, 1000, 5000>>, <<4000, 2000, 4000>>, <<3000, 2000, 3000>> >>,
       << <<1000, 1000, 1500>>, <<3000, 1000, 3500>>, <<2000, 2000, 3500>>, <<1000, 2000, 2500>> >>,
       << <<2500, 2500, 2000>>, <<3500, 2500, 4000>>, <<3500, 3500, 4000>>, <<2500, 3500, 2000>> >>,
       << <<2000, 2000, 3000>>, <<6000, 2000, 3000>>, <<6000, 6000, 3000>>, <<2000, 6000, 3000>> >>,
       << <<4500, 2000, 2000>>, <<7000, 2000, 2000>>, <<7000, 5000, 5000>>, <<4500, 5000, 5000>> >>,
       << <<1000, 1000, 2000>>, <<3000, 1000, 2000>>, <<3000, 3000, 2000>>, <<1000, 3000, 2000>> >>,
       << <<2500, 1000, 1000>>, <<5000, 1000, 1000>>, <<5000, 3000, 3000>>, <<2500, 3000, 3000>> >>,
       << <<1000, 2500, 1000>>, <<1000, 5000, 1000>>, <<3000, 5000, 3000>>, <<3000, 2500, 3000>> >>,
       << <<1000, 0, 1000>>, <<10000, 0, 999>>, <<10000, 1000, 999>>, <<1000, 1000, 1000>> >>,
       << <<500, 500, 500>>, <<1500, 500, 500>>, <<500, 1500, 1500>> >>,
       << <<2500, 500, 500>>, <<3500, 500, 500>>, <<2500, 1500, 1500>> >>,
       << <<500, 500, 2500>>, <<1500, 500, 2500>>, <<500, 1500, 3500>> >>,
       << <<1500, 500, 500>>, <<1500, 1500, 500>>, <<500, 1500, 1500>> >>,
       << <<3000, 1000, 1000>>, <<3000, 1000, 1000>>, <<3000, 1000, 1000>> >>,
       << <<3000, 1000, 1000>>, <<3000, 1000, 1000>>, <<3000, 1000, 1000>> >>,
       << <<1000, 3000, 1000>>, <<1000, 3000, 1000>>, <<1000, 3000, 1000>> >> >>

\* The polygon MeshConverter builds from ring r as the k-th polygon of the
\* list: depth and colour are the converter's; the sorters only carry them.
InputPolygon(k, r) ==
    ViewPolygon(<<k>>, Rings[r], <<Rings[r][1][3], 1>>, r, 1)

\* ------------------------------------------------------------ BSP tree

\* BSPNode(): nodes live in a list, a node is its index, 0 is None.
BSPNode == [front_node |-> 0, back_node |-> 0, is_leaf |-> TRUE, polygon_list |-> <<>>]

\* A round(n / 2) that rounds every half up.
RoundHalfUp(n) == (n + 1) \div 2

\* Python's round(n / 2): halves round to the even neighbour.
PyRoundHalf(n) ==
    IF n % 2 = 0 THEN n \div 2
    ELSE IF (n \div 2) % 2 = 0 THEN n \div 2 ELSE n \div 2 + 1

\* list.pop(i) for a 0-based i: the list without that element.
PopAt(list, i) ==
    [k \in 1..(Len(list) - 1) |-> IF k <= i THEN list[k] ELSE list[k + 1]]

\* "if node.front_node is None: node.front_node = BSPNode()" and the append to
\* the child's polygon_list.
AppendFront(nodes, n, polygon) ==
    IF nodes[n].front_node = 0
    THEN Append([nodes EXCEPT ![n].front_node = Len(nodes) + 1],
                [BSPNode EXCEPT !.polygon_list = <<polygon>>])
    ELSE [nodes EXCEPT ![nodes[n].front_node].polygon_list = Append(@, polygon)]

AppendBack(nodes, n, polygon) ==
    IF nodes[n].back_node = 0
    THEN Append([nodes EXCEPT ![n].back_node = Len(nodes) + 1],
                [BSPNode EXCEPT !.polygon_list = <<polygon>>])
    ELSE [nodes EXCEPT ![nodes[n].back_node].polygon_list = Append(@, polygon)]

\* "if cut_polygons[0] is not None: ...front_node.polygon_list.append(...)",
\* then the same for cut_polygons[1] and the back child.
AppendKeptFront(nodes, n, kept) ==
    IF kept # <<>> THEN AppendFront(nodes, n, kept[1]) ELSE nodes

AppendKeptBack(nodes, n, kept) ==
    IF kept # <<>> THEN AppendBack(nodes, n, kept[1]) ELSE nodes

AppendCut(nodes, n, cut_polygons) ==
    Once(LAMBDA with_front : AppendKeptBack(with_front, n, cut_polygons[2]),
         AppendKeptFront(nodes, n, cut_polygons[1]))

\* A splitting loop that never cuts: what is not behind goes to the front.
SplitStepUncut(nodes, n, part_plane, polygon) ==
    IF relative_pos(part_plane, polygon) = -1
    THEN AppendBack(nodes, n, polygon)
    ELSE AppendFront(nodes, n, polygon)

\* The body of the splitting loop for one polygon: front, cut, or back.
SplitStep(nodes, n, part_plane, polygon) ==
    IF relative_pos(part_plane, polygon) = 1
    THEN AppendFront(nodes, n, polygon)
    ELSE IF relative_pos(part_plane, polygon) = 0
    THEN Once(LAMBDA cut_polygons : AppendCut(nodes, n, cut_polygons),
              cut_conflicting(part_plane, polygon))
    ELSE AppendBack(nodes, n, polygon)

\* The splitting loop of depth_sort_bsp and of bsp_partition, from the last
\* polygon of the list down to the first.
RECURSIVE SplitLoop(_, _, _, _, _)
SplitLoop(nodes, n, part_plane, polygons, i) ==
    IF i = 0 THEN nodes
    ELSE Once(LAMBDA split : SplitLoop(split, n, part_plane, polygons, i - 1),
              SplitStep(nodes, n, part_plane, polygons[i]))

\* A partition that leaves the popped plane and the routed polygons in the
\* node's own list.
PartitionKeepingList(nodes, n, list, mid) ==
    Once(LAMBDA rest : [SplitLoop(nodes, n, list[mid + 1], rest, Len(rest))
                           EXCEPT ![n].is_leaf = FALSE,
                                  ![n].polygon_list = list],
         PopAt(list, mid))

\* A partition that reads the plane without popping it, so that the plane is
\* routed with the other polygons.
PartitionWithoutPop(nodes, n, list, mid) ==
    [SplitLoop(nodes, n, list[mid + 1], list, Len(list))
        EXCEPT ![n].is_leaf = FALSE,
               ![n].polygon_list = <<list[mid + 1]>>]

\* One node of bsp_partition: a node with more than one polygon keeps the
\* popped middle polygon as its plane and hands every other one to a child.
PartitionAt(nodes, n, list, mid) ==
    Once(LAMBDA rest : [SplitLoop(nodes, n, list[mid + 1], rest, Len(rest))
                           EXCEPT ![n].is_leaf = FALSE,
                                  ![n].polygon_list = <<list[mid + 1]>>],
         PopAt(list, mid))

PartitionNode(nodes, n) ==
    PartitionAt(nodes, n, nodes[n].polygon_list, PyRoundHalf(Len(nodes[n].polygon_list)))

\* The first loop of bsp_partition over the leaf list.
RECURSIVE PartitionNodes(_, _, _)
PartitionNodes(nodes, bsp_nodes, k) ==
    IF k > Len(bsp_nodes) THEN nodes
    ELSE IF Len(nodes[bsp_nodes[k]].polygon_list) > 1
         THEN Once(LAMBDA split : PartitionNodes(split, bsp_nodes, k + 1),
                   PartitionNode(nodes, bsp_nodes[k]))
         ELSE PartitionNodes(nodes, bsp_nodes, k + 1)

\* The nodes of the leaf list that bsp_partition subdivides in one call.
Subdivided(nodes, bsp_nodes) ==
    {k \in 1..Len(bsp_nodes) : Len(nodes[bsp_nodes[k]].polygon_list) > 1}

\* The second loop of bsp_partition, from the end of the list to its start:
\* the children of a node that is no leaf any more are appended, the node is
\* deleted.
RECURSIVE UpdateLeaves(_, _, _)
UpdateLeaves(nodes, bsp_nodes, i) ==
    IF i = 0 THEN bsp_nodes
    ELSE LET node == nodes[bsp_nodes[i]]
             a == IF node.front_node # 0 THEN Append(bsp_nodes, node.front_node)
                  ELSE bsp_nodes
             b == IF node.back_node # 0 THEN Append(a, node.back_node) ELSE a
         IN IF ~node.is_leaf
            THEN Once(LAMBDA leaves : UpdateLeaves(nodes, leaves, i - 1), PopAt(b, i - 1))
            ELSE UpdateLeaves(nodes, bsp_nodes, i - 1)

\* DepthSorter.bsp_partition: the tree and the leaf list after the call, and
\* the value returned.
PartitionResult(after, bsp_nodes, subdivided) ==
    [nodes |-> after,
     bsp_nodes |-> UpdateLeaves(after, bsp_nodes, Len(bsp_nodes)),
     subdivided |-> subdivided,
     changed |-> subdivided # {}]

bsp_partition(nodes, bsp_nodes) ==
    Once(LAMBDA after : PartitionResult(after, bsp_nodes, Subdivided(nodes, bsp_nodes)),
         PartitionNodes(nodes, bsp_nodes, 1))

RECURSIVE bsp_tree_to_view_polygons(_, _, _)

\* A traversal that takes a viewpoint on the plane for one in front of it.
TraversalOnPlaneInFront(nodes, root, cam) ==
    IF root = 0 THEN <<>>
    ELSE IF nodes[root].is_leaf THEN <<nodes[root].polygon_list[1]>>
    ELSE IF Dot(VSub(nodes[root].polygon_list[1].verts[1], cam),
                nodes[root].polygon_list[1].normal) <= 0
         THEN bsp_tree_to_view_polygons(nodes, nodes[root].back_node, cam)
              \o <<nodes[root].polygon_list[1]>>
              \o bsp_tree_to_view_polygons(nodes, nodes[root].front_node, cam)
         ELSE bsp_tree_to_view_polygons(nodes, nodes[root].front_node, cam)
              \o <<nodes[root].polygon_list[1]>>
              \o bsp_tree_to_view_polygons(nodes, nodes[root].back_node, cam)

\* DepthSorter.bsp_tree_to_view_polygons: the polygons appended for the
\* subtree of root, in order.
bsp_tree_to_view_polygons(nodes, root, cam) ==
    IF root = 0 THEN <<>>
    ELSE IF nodes[root].is_leaf THEN <<nodes[root].polygon_list[1]>>
    ELSE LET plane == nodes[root].polygon_list[1]
             dir_vector == VSub(plane.verts[1], cam)
             front == bsp_tree_to_view_polygons(nodes, nodes[root].front_node, cam)
             back == bsp_tree_to_view_polygons(nodes, nodes[root].back_node, cam)
         IN IF Dot(dir_vector, plane.normal) < 0
            THEN back \o <<plane>> \o front
            ELSE front \o <<plane>> \o back

\* ------------------------------------------------------------ sorting

\* a >= b for fractions with positive denominators.
FracGeq(a, b) == a[1] * b[2] >= b[1] * a[2]
FracGt(a, b) == a[1] * b[2] > b[1] * a[2]

RECURSIVE SumDepth(_, _)
SumDepth(verts, i) == IF i > Len(verts) THEN 0 ELSE verts[i][3] + SumDepth(verts, i + 1)

\* The key depth_sort_bb_depth sorts by, as a fraction.  The code raises
\* TypeError for any other heuristic.
Heuristics == {"heuristic.bbmid", "heuristic.bbmin", "heuristic.bbmax", "heuristic.weightmid"}

SortKey(polygon, sorting_heuristic) ==
    IF sorting_heuristic = "heuristic.bbmid"
    THEN <<polygon.bounds[6] + polygon.bounds[5], 2>>
    ELSE IF sorting_heuristic = "heuristic.bbmin" THEN <<polygon.bounds[5], 1>>
    ELSE IF sorting_heuristic = "heuristic.bbmax" THEN <<polygon.bounds[6], 1>>
    ELSE polygon.depth

\* list.sort(key = ..., reverse = True): a stable sort, largest key first; of
\* two polygons with the same key the one that came first stays first.
RECURSIVE SortReverse(_, _, _)

\* An insertion that puts a polygon before those of the same key.
InsertReverseUnstable(sorted, polygon, h) ==
    LET before == {k \in 1..Len(sorted) : FracGt(SortKey(sorted[k], h), SortKey(polygon, h))}
        at == Cardinality(before)
    IN [k \in 1..(Len(sorted) + 1) |->
           IF k <= at THEN sorted[k] ELSE IF k = at + 1 THEN polygon ELSE sorted[k - 1]]

InsertReverse(sorted, polygon, h) ==
    LET before == {k \in 1..Len(sorted) : FracGeq(SortKey(sorted[k], h), SortKey(polygon, h))}
        at == Cardinality(before)
    IN [k \in 1..(Len(sorted) + 1) |->
           IF k <= at THEN sorted[k] ELSE IF k = at + 1 THEN polygon ELSE sorted[k - 1]]

SortReverse(list, i, h) ==
    IF i = 0 THEN <<>>
    ELSE Once(LAMBDA sorted : InsertReverse(sorted, list[i], h),
              SortReverse(list, i - 1, h))

\* The loop of the weightmid heuristic: polygon.depth becomes the mean of the
\* vertex depths.
WeightedDepths(list) ==
    [k \in 1..Len(list) |->
        [list[k] EXCEPT !.depth = <<SumDepth(list[k].verts, 1), Len(list[k].verts)>>]]

\* DepthSorter.depth_sort_bb_depth: the list after the call.
depth_sort_bb_depth(list, sorting_heuristic) ==
    IF sorting_heuristic = "heuristic.weightmid"
    THEN SortReverse(WeightedDepths(list), Len(list), sorting_heuristic)
    ELSE SortReverse(list, Len(list), sorting_heuristic)

\* DepthSorter.correct_normals: the normal is negated when the viewpoint is on
\* its side of the plane.
correct_normals(list, viewpoint_pos) ==
    [k \in 1..Len(list) |->
        IF Dot(VSub(viewpoint_pos, list[k].verts[1]), list[k].normal) > 0
        THEN [list[k] EXCEPT !.normal = VNeg(@)]
        ELSE list[k]]

\* ------------------------------------------------------------ bounds

\* Longest list of input polygons, and the rings the BSP inputs come from.
MaxPolygons == 4
BspRings == 1..5
\* Largest cycle_limit handed to depth_sort_bsp.
MaxCycleLimit == 3

\* Lists of at most n different faces; the k-th polygon of a list has the id
\* <<k>>.
Extensions(lists, rings, n) ==
    {Append(l, r) : l \in {x \in lists : Len(x) = n - 1}, r \in rings}

Repeats(l) == \E a \in 1..Len(l) : \E b \in 1..Len(l) : a < b /\ l[a] = l[b]

RECURSIVE RingLists(_, _)
RingLists(rings, n) ==
    IF n = 0 THEN {<<>>}
    ELSE {l \in RingLists(rings, n - 1) \cup Extensions(RingLists(rings, n - 1), rings, n) :
              ~Repeats(l)}

PolygonList(ringlist) == [k \in 1..Len(ringlist) |-> InputPolygon(k, ringlist[k])]

\* Viewpoints of a direct call of bsp_tree_to_view_polygons; the region of the
\* export is 8 by 8 pixels and its viewpoint (width / 2, height / 2, 0).
Viewpoints == {<<4000, 4000, 0>>, <<4000, 4000, 8000>>, <<2000, 1000, 2000>>}
RegionViewpoint == <<4000, 4000, 0>>

\* ------------------------------------------------------------ state

VARIABLES
    pc,               \* where the call is
    caller,           \* "main_export", or "DepthSorter" for a direct call
    cut_conflicts,    \* export_properties.cut_conflicts
    sorting_heuristic,
    cycle_limit,      \* export_properties.partition_cycles_limit
    viewpoint,        \* camera_pos of the traversal
    inputs,           \* the polygons as converted from the meshes
    view_polygons,    \* the list the sorters work on
    nodes,            \* the BSP nodes, nodes[1] the root
    leaf_nodes,       \* leaf_nodes of depth_sort_bsp
    j,                \* its cycle counter
    subdivisions,     \* nodes subdivided so far, the root included
    f,                \* the output file
    messages,         \* what display_message has shown
    ret,              \* what a direct call of a function returned
    octree            \* the Octree of a direct use of the class

vars == <<pc, caller, cut_conflicts, sorting_heuristic, cycle_limit, viewpoint,
          inputs, view_polygons, nodes, leaf_nodes, j, subdivisions, f, messages,
          ret, octree>>

config == <<caller, cut_conflicts, sorting_heuristic, cycle_limit, viewpoint, inputs>>
tree == <<nodes, leaf_nodes, j, subdivisions>>
output == <<f, messages>>
direct == <<ret, octree>>

\* Nothing returned yet, and no octree built.
NoValue == <<>>

Token(tag, ident) == [tag |-> tag, id |-> ident]
Message(title, text) == [title |-> title, text |-> text]

Init ==
    /\ \E l \in RingLists(BspRings, MaxPolygons) :
          /\ inputs = PolygonList(l)
          /\ view_polygons = PolygonList(l)
    /\ cycle_limit \in 1..MaxCycleLimit
    /\ \/ /\ caller = "main_export"
          /\ pc = "main_export"
          /\ viewpoint = RegionViewpoint
          /\ \/ cut_conflicts = TRUE /\ sorting_heuristic = "heuristic.bbmid"
             \/ cut_conflicts = FALSE /\ sorting_heuristic \in Heuristics
       \/ /\ caller = "DepthSorter"
          /\ pc = "depth_sort_bsp"
          /\ viewpoint \in Viewpoints
          /\ cut_conflicts = TRUE
          /\ sorting_heuristic = "heuristic.bbmid"
    /\ nodes = <<>>
    /\ leaf_nodes = <<>>
    /\ j = 0
    /\ subdivisions = 0
    /\ f = [open |-> FALSE, content |-> <<>>]
    /\ messages = <<>>
    /\ ret = NoValue
    /\ octree = NoValue

\* ------------------------------------------------------------ depth_sort_bsp

\* "root.polygon_list.append(view_polygons.pop(round(len / 2)))" and, with
\* polygons left, the "First partition" of the root.
RootNode(polygons, mid) ==
    IF Len(polygons) = 1
    THEN <<[BSPNode EXCEPT !.polygon_list = <<polygons[mid + 1]>>]>>
    ELSE Once(LAMBDA rest : [SplitLoop(<<BSPNode>>, 1, polygons[mid + 1], rest, Len(rest))
                                EXCEPT ![1].is_leaf = FALSE,
                                       ![1].polygon_list = <<polygons[mid + 1]>>],
              PopAt(polygons, mid))

\* "Initializes the leaf node list": the front child, then the back child.
InitialLeaves(root) ==
    (IF root.front_node # 0 THEN <<root.front_node>> ELSE <<>>)
    \o (IF root.back_node # 0 THEN <<root.back_node>> ELSE <<>>)

\* depth_sort_bsp up to its loop.  The list handed in is emptied by the pops.
DepthSortBspStart ==
    /\ pc = "depth_sort_bsp"
    /\ nodes' = IF Len(view_polygons) = 0 THEN <<BSPNode>>
                ELSE RootNode(view_polygons, PyRoundHalf(Len(view_polygons)))
    /\ leaf_nodes' = InitialLeaves(nodes'[1])
    /\ subdivisions' = IF Len(view_polygons) > 1 THEN 1 ELSE 0
    /\ pc' = IF Len(view_polygons) > 1 THEN "bsp_partition"
             ELSE "bsp_tree_to_view_polygons"
    /\ view_polygons' = <<>>
    /\ j' = 0
    /\ UNCHANGED <<direct, config, output>>

\* A loop that counts every subdivided node instead of every pass.
WhileCountingNodes(r) ==
    /\ nodes' = r.nodes
    /\ leaf_nodes' = r.bsp_nodes
    /\ subdivisions' = subdivisions + Cardinality(r.subdivided)
    /\ j' = j + Cardinality(r.subdivided)
    /\ pc' = IF ~r.changed THEN "bsp_tree_to_view_polygons"
             ELSE IF j' >= cycle_limit THEN "RecursionError"
             ELSE "bsp_partition"

\* A loop that raises only above the limit: "if j > cycle_limit".
WhileAboveLimit(r) ==
    /\ nodes' = r.nodes
    /\ leaf_nodes' = r.bsp_nodes
    /\ subdivisions' = subdivisions + Cardinality(r.subdivided)
    /\ j' = IF r.changed THEN j + 1 ELSE j
    /\ pc' = IF ~r.changed THEN "bsp_tree_to_view_polygons"
             ELSE IF j + 1 > cycle_limit THEN "RecursionError"
             ELSE "bsp_partition"

\* A loop that never looks at its counter and takes every pass for a change.
WhileForever(r) ==
    /\ nodes' = r.nodes
    /\ leaf_nodes' = r.bsp_nodes
    /\ subdivisions' = subdivisions + Cardinality(r.subdivided)
    /\ j' = j
    /\ pc' = "bsp_partition"

\* One turn of "while DepthSorter.bsp_partition(leaf_nodes)": a call that
\* changed the tree counts a cycle, and the cycle that reaches the limit raises.
WhileBspPartition(r) ==
    /\ nodes' = r.nodes
    /\ leaf_nodes' = r.bsp_nodes
    /\ subdivisions' = subdivisions + Cardinality(r.subdivided)
    /\ j' = IF r.changed THEN j + 1 ELSE j
    /\ pc' = IF ~r.changed THEN "bsp_tree_to_view_polygons"
             ELSE IF j + 1 >= cycle_limit THEN "RecursionError"
             ELSE "bsp_partition"

BspPartition ==
    /\ pc = "bsp_partition"
    /\ \E r \in {bsp_partition(nodes, leaf_nodes)} : WhileBspPartition(r)
    /\ UNCHANGED <<direct, config, view_polygons, output>>

\* bsp_tree_to_view_polygons(root, view_polygons, camera_pos) on the returned
\* root.  The root of an empty list is a leaf without a polygon, and reading
\* its polygon_list[0] raises IndexError.
BspTraverse ==
    /\ pc = "bsp_tree_to_view_polygons"
    /\ IF nodes[1].is_leaf /\ nodes[1].polygon_list = <<>>
       THEN /\ pc' = "IndexError"
            /\ view_polygons' = <<>>
       ELSE /\ view_polygons' = bsp_tree_to_view_polygons(nodes, 1, viewpoint)
            /\ pc' = IF caller = "main_export" THEN "write" ELSE "returned"
    /\ UNCHANGED <<direct, config, tree, output>>

\* ------------------------------------------------------------ main_export

\* The checks of main_export before the file is written: each shows its error
\* and returns.
Rejections == {"Invalid grayscale brightness range", "No light source has been selected",
               "No objects of type MESH have been selected",
               "Output directory not found", "Permission to open file denied"}

ExportRejected ==
    /\ pc = "main_export"
    /\ \E text \in Rejections : messages' = Append(messages, Message("Error", text))
    /\ pc' = "finished"
    /\ UNCHANGED <<direct, config, view_polygons, tree, f>>

\* open(path, "w") and gen_svg_head: the <svg> tag and the opening of the group.
GenSvgHead ==
    /\ pc = "main_export"
    /\ f' = [open |-> TRUE, content |-> <<Token("<svg>", <<>>), Token("<g>", <<>>)>>]
    /\ pc' = "gen_svg_body"
    /\ UNCHANGED <<direct, config, view_polygons, tree, messages>>

PolygonTokens(list) == [k \in 1..Len(list) |-> Token("<polygon>", list[k].id)]

\* gen_svg_body without cutting: the heuristic sort, then every polygon is
\* written.
QuickSort ==
    /\ pc = "gen_svg_body"
    /\ ~cut_conflicts
    /\ view_polygons' = depth_sort_bb_depth(view_polygons, sorting_heuristic)
    /\ f' = [f EXCEPT !.content = @ \o PolygonTokens(view_polygons')]
    /\ pc' = "gen_svg_tail"
    /\ UNCHANGED <<direct, config, tree, messages>>

\* gen_svg_body with cutting: correct_normals, then the BSP branch.
CorrectNormals ==
    /\ pc = "gen_svg_body"
    /\ cut_conflicts
    /\ view_polygons' = correct_normals(view_polygons, viewpoint)
    /\ pc' = "depth_sort_bsp"
    /\ UNCHANGED <<direct, config, tree, output>>

\* "Writes polygons to the file", the end of gen_svg_body.
WritePolygons ==
    /\ pc = "write"
    /\ f' = [f EXCEPT !.content = @ \o PolygonTokens(view_polygons)]
    /\ pc' = "gen_svg_tail"
    /\ UNCHANGED <<direct, config, view_polygons, tree, messages>>

SvgTail == <<Token("</g>", <<>>), Token("</svg>", <<>>)>>

\* gen_svg_body returned: gen_svg_tail, f.close() and the success message.
GenSvgTail ==
    /\ pc = "gen_svg_tail"
    /\ f' = [open |-> FALSE, content |-> f.content \o SvgTail]
    /\ messages' = Append(messages, Message("Success", "Selected models successfully exported"))
    /\ pc' = "finished"
    /\ UNCHANGED <<direct, config, view_polygons, tree>>

\* A handler that only prints and lets main_export run on, as the handler of
\* ValueError does.
ExceptRecursionErrorRunsOn ==
    /\ pc = "RecursionError"
    /\ caller = "main_export"
    /\ f' = [open |-> FALSE, content |-> f.content \o SvgTail]
    /\ messages' = Append(messages, Message("Success", "Selected models successfully exported"))
    /\ pc' = "finished"
    /\ UNCHANGED <<direct, config, view_polygons, tree>>

\* "except RecursionError": the tail is written, the file closed and the error
\* names the partition cycles limit.
ExceptRecursionError ==
    /\ pc = "RecursionError"
    /\ caller = "main_export"
    /\ f' = [open |-> FALSE, content |-> f.content \o SvgTail]
    /\ messages' = Append(messages, Message("Error", "Partition cycles limit of the BSP method reached"))
    /\ pc' = "finished"
    /\ UNCHANGED <<direct, config, view_polygons, tree>>

\* "except KeyboardInterrupt", at any point of gen_svg_body: the file is closed
\* and nothing is displayed.
ExceptKeyboardInterrupt ==
    /\ pc \in {"gen_svg_body", "depth_sort_bsp", "bsp_partition",
               "bsp_tree_to_view_polygons", "write"}
    /\ caller = "main_export"
    /\ f' = [f EXCEPT !.open = FALSE]
    /\ pc' = "finished"
    /\ UNCHANGED <<direct, config, view_polygons, tree, messages>>

\* "except ValueError", for a ValueError out of the conversion of the meshes
\* or out of the writing of the polygons: the traceback is printed and
\* main_export runs on behind the try statement.  ret keeps the exception.
ExceptValueError ==
    /\ pc \in {"gen_svg_body", "write"}
    /\ caller = "main_export"
    /\ ret' = <<"ValueError">>
    /\ pc' = "gen_svg_tail"
    /\ UNCHANGED <<octree, config, view_polygons, tree, output>>

Next ==
    \/ ExportRejected
    \/ GenSvgHead
    \/ QuickSort
    \/ CorrectNormals
    \/ DepthSortBspStart
    \/ BspPartition
    \/ BspTraverse
    \/ WritePolygons
    \/ GenSvgTail
    \/ ExceptValueError
    \/ ExceptRecursionError
    \/ ExceptKeyboardInterrupt

Spec == Init /\ [][Next]_vars

\* ------------------------------------------------------------ BSP properties

\* The ids of the polygons held in the subtree of node n (0 is no node).
RECURSIVE SubtreeIds(_)
SubtreeIds(n) ==
    IF n = 0 THEN {}
    ELSE {nodes[n].polygon_list[k].id : k \in 1..Len(nodes[n].polygon_list)}
         \cup SubtreeIds(nodes[n].front_node) \cup SubtreeIds(nodes[n].back_node)

\* Where the polygon with this id stands in the output.
Positions(ident) == {k \in 1..Len(view_polygons) : view_polygons[k].id = ident}

\* The traversal has filled view_polygons from the tree.
Traversed == pc \in {"write", "returned"}

\* The viewpoint lies on the side of the plane its normal points to.
ViewpointInFront(plane) == PlaneSide(plane, viewpoint) > 0

AllBefore(ids, ident) ==
    \A a \in ids : \A ka \in Positions(a) : \A k \in Positions(ident) : ka < k

AllAfter(ids, ident) ==
    \A a \in ids : \A ka \in Positions(a) : \A k \in Positions(ident) : ka > k

\* C1: at every internal node, with the viewpoint in front of the node's plane
\* the polygons of the back subtree stand before the node's polygon in the
\* output and those of the front subtree after it; with the viewpoint behind
\* or exactly on the plane the front subtree stands first and the back
\* subtree last.
C1_TraversalOrder ==
    Traversed =>
        \A n \in 1..Len(nodes) :
            ~nodes[n].is_leaf =>
                /\ Positions(nodes[n].polygon_list[1].id) # {}
                /\ SubtreeIds(nodes[n].front_node) \cup SubtreeIds(nodes[n].back_node)
                       \subseteq {view_polygons[k].id : k \in 1..Len(view_polygons)}
                /\ IF ViewpointInFront(nodes[n].polygon_list[1])
                   THEN /\ AllBefore(SubtreeIds(nodes[n].back_node), nodes[n].polygon_list[1].id)
                        /\ AllAfter(SubtreeIds(nodes[n].front_node), nodes[n].polygon_list[1].id)
                   ELSE /\ AllBefore(SubtreeIds(nodes[n].front_node), nodes[n].polygon_list[1].id)
                        /\ AllAfter(SubtreeIds(nodes[n].back_node), nodes[n].polygon_list[1].id)

\* A traversal of a tree with a node that has both children, seen from in
\* front of its plane.
C1_Witness ==
    /\ Traversed
    /\ \E n \in 1..Len(nodes) :
          /\ nodes[n].front_node # 0
          /\ nodes[n].back_node # 0
          /\ ViewpointInFront(nodes[n].polygon_list[1])

\* Every polygon of the output with the input polygon it descends from: the
\* first number of its id.
Origin(polygon) == polygon.id[1]

\* A polygon whose vertex list a cut has written: the front fragment keeps the
\* id, a back fragment has a longer one.
IsFragment(polygon) == polygon.ncut > 0 \/ Len(polygon.id) > 1

\* The polygons of the tree that descend from input k.
Descendants(k) ==
    {<<n, i>> \in (1..Len(nodes)) \X (1..MaxPolygons) :
        /\ i <= Len(nodes[n].polygon_list)
        /\ Origin(nodes[n].polygon_list[i]) = k}

\* Input k was cut: the tree holds a fragment of it, or nothing of it at all
\* (both fragments culled).
WasCut(k) ==
    \/ Descendants(k) = {}
    \/ \E d \in Descendants(k) : IsFragment(nodes[d[1]].polygon_list[d[2]])

\* C2: when depth_sort_bsp and the traversal complete on a non-empty input,
\* every polygon of the output descends from an input polygon and carries its
\* style and plane, no polygon is in the output twice, an input polygon that
\* was never cut is in the output exactly once and unchanged, a cut polygon
\* is there only as fragments, and the output is as long as the tree has
\* nodes.
C2_BspOutput ==
    (Traversed /\ inputs # <<>>) =>
        /\ \A k \in 1..Len(view_polygons) :
              /\ Origin(view_polygons[k]) \in 1..Len(inputs)
              /\ view_polygons[k].rgb_color = inputs[Origin(view_polygons[k])].rgb_color
              /\ view_polygons[k].opacity = inputs[Origin(view_polygons[k])].opacity
              /\ \A i \in 1..Len(view_polygons[k].verts) :
                    vert_relative_pos(inputs[Origin(view_polygons[k])],
                                      view_polygons[k].verts[i]) = 0
        /\ \A a \in 1..Len(view_polygons) : \A b \in 1..Len(view_polygons) :
              a # b => view_polygons[a].id # view_polygons[b].id
        /\ \A k \in 1..Len(inputs) :
              IF WasCut(k)
              THEN \A i \in 1..Len(view_polygons) :
                      Origin(view_polygons[i]) = k => IsFragment(view_polygons[i])
              ELSE /\ Cardinality({i \in 1..Len(view_polygons) :
                                      Origin(view_polygons[i]) = k}) = 1
                   /\ \E i \in 1..Len(view_polygons) :
                         /\ view_polygons[i].id = <<k>>
                         /\ view_polygons[i].verts = inputs[k].verts
        /\ Len(view_polygons) = Len(nodes)

\* An output that holds an uncut input polygon and two fragments of a cut one.
C2_Witness ==
    /\ Traversed
    /\ \E k \in 1..Len(inputs) : ~WasCut(k)
    /\ \E a \in 1..Len(view_polygons) : \E b \in 1..Len(view_polygons) :
          /\ a # b
          /\ Origin(view_polygons[a]) = Origin(view_polygons[b])

\* depth_sort_bsp returned its root (and did not raise).
TreeReturned == pc \in {"bsp_tree_to_view_polygons", "IndexError", "write", "returned"}

\* The nodes subdivided by the passes of bsp_partition, the root's own
\* subdivision in depth_sort_bsp left out.
LoopSubdivisions == IF subdivisions > 0 THEN subdivisions - 1 ELSE 0

\* C3 as stated: a build that subdivides more nodes than cycle_limit does not
\* return a tree.  (The count leaves the root out, which favours the
\* statement.)
C3_SubdivisionsWithinLimit ==
    TreeReturned => LoopSubdivisions <= cycle_limit

\* C3: the cycle counter starts at 0 after the subdivision of the root and
\* increases by one for each pass of bsp_partition that subdivided at least
\* one node, however many nodes the pass subdivided; the pass with which the
\* counter reaches cycle_limit raises RecursionError.
C3_CountsPasses ==
    [][/\ j' = IF pc = "depth_sort_bsp" THEN 0
               ELSE IF subdivisions' > subdivisions THEN j + 1 ELSE j
       /\ (pc = "bsp_partition" /\ pc' = "RecursionError") <=>
              (pc = "bsp_partition" /\ subdivisions' > subdivisions
                                    /\ j + 1 >= cycle_limit)]_vars

\* A build that subdivided more nodes in its passes than cycle_limit and
\* returned its tree.
C3_Witness ==
    /\ TreeReturned
    /\ LoopSubdivisions > cycle_limit

\* C4 as stated: RecursionError is raised only with the counter above
\* cycle_limit.
C4_RaisesOnlyAboveLimit ==
    pc = "RecursionError" => j > cycle_limit

\* C4: RecursionError is raised as soon as the counter reaches cycle_limit: a
\* build that raised has a counter equal to cycle_limit, and a build that is
\* still running or has returned its tree has a counter below cycle_limit.
C4_RaisesAtLimit ==
    /\ pc = "RecursionError" => j = cycle_limit
    /\ (pc = "bsp_partition" \/ TreeReturned) => j < cycle_limit

\* A build that raised with its counter at cycle_limit although every node
\* already held a single polygon.
C4_Witness ==
    /\ pc = "RecursionError"
    /\ j = cycle_limit
    /\ cycle_limit > 1
    /\ \A n \in 1..Len(nodes) : Len(nodes[n].polygon_list) = 1

\* ------------------------------------------------------------ export properties

\* The cycle limit was hit during an export.
LimitHit == caller = "main_export" /\ j = cycle_limit

Tags(content) == {content[k].tag : k \in 1..Len(content)}
Titles(shown) == {shown[k].title : k \in 1..Len(shown)}

\* C5: once the cycle limit is hit during an export no polygon element is in
\* the file and no success message is shown; when main_export has returned
\* the file is closed and holds the head and the closing tags only, and the
\* error that names the partition cycles limit has been shown.
C5_LimitAbortsCleanly ==
    LimitHit =>
        /\ "<polygon>" \notin Tags(f.content)
        /\ "Success" \notin Titles(messages)
        /\ pc = "finished" =>
              /\ ~f.open
              /\ f.content = <<Token("<svg>", <<>>), Token("<g>", <<>>),
                               Token("</g>", <<>>), Token("</svg>", <<>>)>>
              /\ messages = <<Message("Error",
                                      "Partition cycles limit of the BSP method reached")>>

\* An export that hit the limit and has returned.
C5_Witness ==
    /\ LimitHit
    /\ pc = "finished"
    /\ inputs # <<>>
    /\ messages # <<>>

\* ------------------------------------------------------------ termination

\* A direct call of depth_sort_bsp followed by the traversal.  The statements
\* of depth_sort_bsp run one after the other: a step of the build that can be
\* taken is taken.
FairInit ==
    /\ Init
    /\ caller = "DepthSorter"
    /\ viewpoint = RegionViewpoint

FairNext ==
    \/ DepthSortBspStart
    \/ BspPartition
    \/ BspTraverse

FairSpec ==
    FairInit /\ [][FairNext]_vars
        /\ WF_vars(DepthSortBspStart) /\ WF_vars(BspPartition)

\* C6: every call of depth_sort_bsp ends: the passes of bsp_partition stop
\* with a pass that changes nothing, after which the tree is returned, or
\* RecursionError is raised.
C6_BuildTerminates ==
    (pc = "depth_sort_bsp") ~> (TreeReturned \/ pc = "RecursionError")

\* A build whose passes stopped by themselves below the limit.
C6_Witness ==
    /\ pc = "bsp_tree_to_view_polygons"
    /\ j = 2
    /\ cycle_limit = 3

\* ------------------------------------------------------------ classification

\* Longest vertex ring of a classified polygon.
MaxRingLen == 3

\* The planes of a direct call of relative_pos: a plane across the depth axis
\* and a slanted one.
ClassifyPlanes == {1, 3}

\* The vertices the classified polygons are drawn from: a column through both
\* planes at depth 2000, in steps of one grid step, and three vertices far
\* from the planes.
ClassifyVerts ==
    {<<1000, 0, z>> : z \in 1998..2002}
        \cup {<<3000, 1000, 1000>>, <<3000, 1000, 4000>>, <<3000, 1000, 5000>>}

RECURSIVE VertLists(_)
VertLists(n) ==
    IF n = 0 THEN {<<>>}
    ELSE {Append(l, v) : l \in VertLists(n - 1), v \in ClassifyVerts}

\* A polygon with the given ring and nothing else of interest.  Its normal is
\* left alone: relative_pos reads the normal of the plane polygon only.
RingPolygon(ident, verts) ==
    [id |-> ident, ncut |-> 0, verts |-> verts, depth |-> <<0, 1>>,
     rgb_color |-> 0, stroke_color |-> 0, opacity |-> 1, stroke_opacity |-> 1,
     normal |-> <<0, 0, 0>>, marked |-> FALSE, bounds |-> recalculate_bounds(verts)]

\* A direct call relative_pos(plane_polygon, polygon_p): inputs is the pair.
ClassifyInit ==
    /\ pc = "relative_pos"
    /\ caller = "DepthSorter"
    /\ \E r \in ClassifyPlanes : \E verts \in VertLists(MaxRingLen) :
          inputs = <<InputPolygon(1, r), RingPolygon(<<2>>, verts)>>
    /\ cut_conflicts = TRUE
    /\ sorting_heuristic = "heuristic.bbmid"
    /\ cycle_limit = 1
    /\ viewpoint = RegionViewpoint
    /\ view_polygons = <<>>
    /\ nodes = <<>>
    /\ leaf_nodes = <<>>
    /\ j = 0
    /\ subdivisions = 0
    /\ f = [open |-> FALSE, content |-> <<>>]
    /\ messages = <<>>
    /\ ret = NoValue
    /\ octree = NoValue

RelativePos ==
    /\ pc = "relative_pos"
    /\ ret' = <<relative_pos(inputs[1], inputs[2])>>
    /\ pc' = "returned"
    /\ UNCHANGED <<octree, config, view_polygons, tree, output>>

ClassifyNext == RelativePos

ClassifySpec == ClassifyInit /\ [][ClassifyNext]_vars

\* What vert_relative_pos says of the vertices of the classified polygon.
VertexSides ==
    {vert_relative_pos(inputs[1], inputs[2].verts[i]) : i \in 1..Len(inputs[2].verts)}

Front == 1
Behind == -1
On == 0
Straddling == 0

\* C7 as stated: Front iff every vertex is Front-or-On, Behind iff every
\* vertex is Behind-or-On, Straddling otherwise.
C7_IffAllOnOneSide ==
    pc = "returned" =>
        /\ ret[1] = Front <=> VertexSides \subseteq {Front, On}
        /\ ret[1] = Behind <=> VertexSides \subseteq {Behind, On}
        /\ ret[1] = Straddling <=> /\ ~(VertexSides \subseteq {Front, On})
                                   /\ ~(VertexSides \subseteq {Behind, On})

\* C7: relative_pos returns Front if and only if every vertex is Front-or-On
\* (a polygon with every vertex On is Front), Behind if and only if every
\* vertex is Behind-or-On and at least one is Behind, and Straddling
\* otherwise, that is when one vertex is Front and another Behind.
C7_Classification ==
    pc = "returned" =>
        /\ ret[1] = Front <=> VertexSides \subseteq {Front, On}
        /\ ret[1] = Behind <=> (VertexSides \subseteq {Behind, On} /\ Behind \in VertexSides)
        /\ ret[1] = Straddling <=> (Front \in VertexSides /\ Behind \in VertexSides)

\* A polygon with every vertex on the plane, one of them off it by less than
\* the threshold, classified as Front.
C7_Witness ==
    /\ pc = "returned"
    /\ VertexSides = {On}
    /\ \E i \in 1..Len(inputs[2].verts) : PlaneSide(inputs[1], inputs[2].verts[i]) # 0
    /\ ret = <<Front>>

\* ------------------------------------------------------------ heuristic sort

\* The faces a direct call of depth_sort_bb_depth sorts.
SortRings == 1..7

\* A direct call depth_sort_bb_depth(view_polygons, sorting_heuristic).
SortInit ==
    /\ pc = "depth_sort_bb_depth"
    /\ caller = "DepthSorter"
    /\ \E l \in RingLists(SortRings, MaxPolygons) :
          /\ inputs = PolygonList(l)
          /\ view_polygons = PolygonList(l)
    /\ sorting_heuristic \in Heuristics
    /\ cut_conflicts = FALSE
    /\ cycle_limit = 1
    /\ viewpoint = RegionViewpoint
    /\ nodes = <<>>
    /\ leaf_nodes = <<>>
    /\ j = 0
    /\ subdivisions = 0
    /\ f = [open |-> FALSE, content |-> <<>>]
    /\ messages = <<>>
    /\ ret = NoValue
    /\ octree = NoValue

DepthSortBbDepth ==
    /\ pc = "depth_sort_bb_depth"
    /\ view_polygons' = depth_sort_bb_depth(view_polygons, sorting_heuristic)
    /\ pc' = "returned"
    /\ UNCHANGED <<direct, config, tree, output>>

SortNext == DepthSortBbDepth

SortSpec == SortInit /\ [][SortNext]_vars

\* The depths of the vertices of a polygon.
Depths(polygon) == {polygon.verts[i][3] : i \in 1..Len(polygon.verts)}
MinDepth(polygon) == CHOOSE z \in Depths(polygon) : \A y \in Depths(polygon) : z <= y
MaxDepth(polygon) == CHOOSE z \in Depths(polygon) : \A y \in Depths(polygon) : z >= y

\* The key of each heuristic, as a fraction: ClosestVertex, FurthestVertex,
\* Center and WeightedCenter.
HeuristicKey(polygon, h) ==
    IF h = "heuristic.bbmin" THEN <<MinDepth(polygon), 1>>
    ELSE IF h = "heuristic.bbmax" THEN <<MaxDepth(polygon), 1>>
    ELSE IF h = "heuristic.bbmid" THEN <<MinDepth(polygon) + MaxDepth(polygon), 2>>
    ELSE <<SumDepth(polygon.verts, 1), Len(polygon.verts)>>

\* C8: depth_sort_bb_depth leaves in the list a permutation of the input (the
\* same polygons, each once) in non-increasing order of the selected key, in
\* which polygons of equal keys keep their input order; three polygons with
\* the minimum depths 1, 2, 3 pixels come out as [3, 2, 1] under
\* ClosestVertex.
C8_StableDescendingSort ==
    pc = "returned" =>
        /\ Len(view_polygons) = Len(inputs)
        /\ \A k \in 1..Len(inputs) : \E a \in 1..Len(view_polygons) :
              /\ view_polygons[a].id = inputs[k].id
              /\ view_polygons[a].verts = inputs[k].verts
              /\ view_polygons[a].rgb_color = inputs[k].rgb_color
        /\ \A a \in 1..Len(view_polygons) : \A b \in 1..Len(view_polygons) :
              a < b =>
                 /\ FracGeq(HeuristicKey(view_polygons[a], sorting_heuristic),
                            HeuristicKey(view_polygons[b], sorting_heuristic))
                 /\ FracGeq(HeuristicKey(view_polygons[b], sorting_heuristic),
                            HeuristicKey(view_polygons[a], sorting_heuristic))
                        => view_polygons[a].id[1] < view_polygons[b].id[1]
        /\ (/\ sorting_heuristic = "heuristic.bbmin"
            /\ Len(inputs) = 3
            /\ \A k \in 1..3 : MinDepth(inputs[k]) = k * POLYGON_CUT_PRECISION)
               => [k \in 1..3 |-> view_polygons[k].id] = <<<<3>>, <<2>>, <<1>>>>

\* The three polygons of minimum depths 1, 2, 3 sorted under ClosestVertex.
C8_Witness ==
    /\ pc = "returned"
    /\ sorting_heuristic = "heuristic.bbmin"
    /\ Len(inputs) = 3
    /\ \A k \in 1..3 : MinDepth(inputs[k]) = k * POLYGON_CUT_PRECISION
    /\ [k \in 1..3 |-> view_polygons[k].id] = <<<<3>>, <<2>>, <<1>>>>

\* ------------------------------------------------------------ octree

\* OctreeNode(x_min, ..., parent, depth): the nodes of an octree live in a
\* list, a node is its index and 0 is None.
OctreeNode(x_min, x_max, y_min, y_max, z_min, z_max, parent, depth) ==
    [bounds |-> <<x_min, x_max, y_min, y_max, z_min, z_max>>,
     parent |-> parent, depth |-> depth,
     children |-> <<0, 0, 0, 0, 0, 0, 0, 0>>,
     unresolved |-> <<>>, resolved |-> <<>>, nondivided |-> TRUE]

\* Octree(xMin, ...): nodes[1] is the root.
Octree(xMin, xMax, yMin, yMax, zMin, zMax) ==
    [nodes |-> <<OctreeNode(xMin, xMax, yMin, yMax, zMin, zMax, 0, 0)>>,
     compressed |-> FALSE]

\* OctreeNode.contains_polygon.
contains_polygon(node, view_polygon) ==
    ~(\/ view_polygon.bounds[1] < node.bounds[1] \/ view_polygon.bounds[2] > node.bounds[2]
      \/ view_polygon.bounds[3] < node.bounds[3] \/ view_polygon.bounds[4] > node.bounds[4]
      \/ view_polygon.bounds[5] < node.bounds[5] \/ view_polygon.bounds[6] > node.bounds[6])

\* (a + b) / 2.0; the bounds of the nodes reached here are even sums.
Half(a, b) == (a + b) \div 2

\* The eight children of subdivide, in the order of self.children.
ChildNodes(b, parent, depth) ==
    << OctreeNode(b[1], Half(b[1], b[2]), b[3], Half(b[3], b[4]), b[5], Half(b[5], b[6]), parent, depth),
       OctreeNode(Half(b[1], b[2]), b[2], b[3], Half(b[3], b[4]), b[5], Half(b[5], b[6]), parent, depth),
       OctreeNode(b[1], Half(b[1], b[2]), Half(b[3], b[4]), b[4], b[5], Half(b[5], b[6]), parent, depth),
       OctreeNode(Half(b[1], b[2]), b[2], Half(b[3], b[4]), b[4], b[5], Half(b[5], b[6]), parent, depth),
       OctreeNode(b[1], Half(b[1], b[2]), b[3], Half(b[3], b[4]), Half(b[5], b[6]), b[6], parent, depth),
       OctreeNode(Half(b[1], b[2]), b[2], b[3], Half(b[3], b[4]), Half(b[5], b[6]), b[6], parent, depth),
       OctreeNode(b[1], Half(b[1], b[2]), Half(b[3], b[4]), b[4], Half(b[5], b[6]), b[6], parent, depth),
       OctreeNode(Half(b[1], b[2]), b[2], Half(b[3], b[4]), b[4], Half(b[5], b[6]), b[6], parent, depth) >>

\* The first child of node n, in the order of self.children, that contains the
\* polygon: its place 1..8, or 0.
ContainingChildren(cells, n, polygon) ==
    {k \in 1..8 : /\ cells[n].children[k] # 0
                  /\ contains_polygon(cells[cells[n].children[k]], polygon)}

FirstContaining(cells, n, polygon) ==
    IF ContainingChildren(cells, n, polygon) = {} THEN 0
    ELSE CHOOSE k \in ContainingChildren(cells, n, polygon) :
             \A m \in ContainingChildren(cells, n, polygon) : k <= m

\* "for polygon in self.unresolved": the loop stands at place i (from 0) of the
\* list; a polygon that moves to a child is removed from the list under the
\* loop, which then goes on at place i + 1 of the shortened list.
RECURSIVE SubdivideLoop(_, _, _)
SubdivideLoop(cells, n, i) ==
    IF i >= Len(cells[n].unresolved) THEN cells
    ELSE IF FirstContaining(cells, n, cells[n].unresolved[i + 1]) = 0
         THEN SubdivideLoop(cells, n, i + 1)
         ELSE Once(LAMBDA moved : SubdivideLoop(moved, n, i + 1),
                   [cells EXCEPT
                      ![cells[n].children[FirstContaining(cells, n, cells[n].unresolved[i + 1])]].unresolved =
                          Append(@, cells[n].unresolved[i + 1]),
                      ![n].unresolved = PopAt(@, i)])

\* A subdivision that creates the children and leaves the node's polygons
\* where they are.
SubdivideKeeping(cells, n) ==
    [cells EXCEPT ![n].children = [k \in 1..8 |-> Len(cells) + k],
                  ![n].nondivided = FALSE]
        \o ChildNodes(cells[n].bounds, n, cells[n].depth + 1)

\* OctreeNode.subdivide.
subdivide(cells, n) ==
    SubdivideLoop(
        [cells EXCEPT ![n].children = [k \in 1..8 |-> Len(cells) + k],
                      ![n].nondivided = FALSE]
            \o ChildNodes(cells[n].bounds, n, cells[n].depth + 1),
        n, 0)

\* OctreeNode.add_polygon on node n.
RECURSIVE add_polygon(_, _, _)

\* add_polygon after "if self.nondivided": the polygon goes to the first child
\* that contains it, else it stays in this node.
AddToChild(cells, n, view_polygon) ==
    IF FirstContaining(cells, n, view_polygon) = 0
    THEN [cells EXCEPT ![n].unresolved = Append(@, view_polygon)]
    ELSE add_polygon(cells, cells[n].children[FirstContaining(cells, n, view_polygon)],
                     view_polygon)

\* An add_polygon that subdivides every never-subdivided node it comes to,
\* the empty ones too.
AddPolygonSubdividing(cells, n, view_polygon) ==
    IF cells[n].nondivided
    THEN Once(LAMBDA divided : AddToChild(divided, n, view_polygon), subdivide(cells, n))
    ELSE AddToChild(cells, n, view_polygon)

add_polygon(cells, n, view_polygon) ==
    IF cells[n].nondivided /\ Len(cells[n].unresolved) = 0
    THEN [cells EXCEPT ![n].unresolved = Append(@, view_polygon)]
    ELSE IF cells[n].nondivided
    THEN Once(LAMBDA divided : AddToChild(divided, n, view_polygon), subdivide(cells, n))
    ELSE AddToChild(cells, n, view_polygon)

\* An insertion that does not look at the compressed flag.
InsertIntoCompressed(self, view_polygon) ==
    [tree |-> [self EXCEPT !.nodes = add_polygon(self.nodes, 1, view_polygon)],
     raised |-> "None"]

\* Octree.insert_polygon: the tree after the call and what the call raised.
insert_polygon(self, view_polygon) ==
    IF self.compressed
    THEN [tree |-> self, raised |-> "TypeError"]
    ELSE [tree |-> [self EXCEPT !.nodes = add_polygon(self.nodes, 1, view_polygon)],
          raised |-> "None"]

\* The children of a node that compress_tree keeps, in order.
KeptChild(cells, c) ==
    c # 0 /\ ~(Len(cells[c].unresolved) = 0 /\ cells[c].nondivided)

KeptChildren(cells, n) ==
    SelectSeq(cells[n].children, LAMBDA c : KeptChild(cells, c))

\* The loop of compress_tree over its growing list of nodes: <<cells, list>>.
RECURSIVE CompressLoop(_, _, _)
CompressLoop(cells, list, i) ==
    IF i > Len(list) THEN <<cells, list>>
    ELSE Once(LAMBDA kept : CompressLoop(
                  [cells EXCEPT ![list[i]].children =
                      [k \in 1..8 |-> IF KeptChild(cells, @[k]) THEN @[k] ELSE 0]],
                  list \o kept, i + 1),
              KeptChildren(cells, list[i]))

\* Octree.compress_tree: the tree after the call and the list returned.
compress_tree(self) ==
    Once(LAMBDA done : [tree |-> [nodes |-> done[1], compressed |-> TRUE],
                        nodes |-> done[2]],
         CompressLoop(self.nodes, <<1>>, 1))

\* The screen-space ring of a polygon: (vert[0], vert[1]) of each vertex.
Projection(verts) == [k \in 1..Len(verts) |-> <<verts[k][1], verts[k][2]>>]

\* Twice the signed area of the triangle a, b, c.
Cross(a, b, c) == (b[1] - a[1]) * (c[2] - a[2]) - (b[2] - a[2]) * (c[1] - a[1])

\* The sides of the line through edge i of a ring on which the points of
\* another ring lie.
EdgeSides(ring, i, points) ==
    {Sgn(Cross(ring[i], ring[(i % Len(ring)) + 1], points[k])) : k \in 1..Len(points)}

\* Edge i of a convex ring separates it from the other ring: the other ring
\* has no point strictly on the ring's own side of the edge.
Separates(ring, i, other) ==
    /\ ring[i] # ring[(i % Len(ring)) + 1]
    /\ \/ 1 \notin EdgeSides(ring, i, ring) /\ -1 \notin EdgeSides(ring, i, other)
       \/ -1 \notin EdgeSides(ring, i, ring) /\ 1 \notin EdgeSides(ring, i, other)

\* The other ring has no point strictly beyond edge i of the convex ring.
Encloses(ring, i, other) ==
    \/ -1 \notin EdgeSides(ring, i, ring) /\ -1 \notin EdgeSides(ring, i, other)
    \/ 1 \notin EdgeSides(ring, i, ring) /\ 1 \notin EdgeSides(ring, i, other)

InteriorsMeet(p, q) ==
    /\ \A i \in 1..Len(p) : ~Separates(p, i, q)
    /\ \A i \in 1..Len(q) : ~Separates(q, i, p)

Covers(p, q) == \A i \in 1..Len(p) : Encloses(p, i, q)

\* shapely's Polygon.overlaps on convex rings: the interiors share points and
\* neither polygon lies within the other.
Overlaps(p, q) == InteriorsMeet(p, q) /\ ~Covers(p, q) /\ ~Covers(q, p)

\* DepthSorter.in_conflict.
in_conflict(polygon_p, polygon_q) ==
    /\ ~(\/ polygon_p.bounds[5] > polygon_q.bounds[6] /\ polygon_p.bounds[6] > polygon_q.bounds[6]
         \/ polygon_p.bounds[5] < polygon_q.bounds[5] /\ polygon_p.bounds[6] < polygon_q.bounds[5])
    /\ ~(\/ polygon_p.bounds[3] > polygon_q.bounds[4] /\ polygon_p.bounds[4] > polygon_q.bounds[4]
         \/ polygon_p.bounds[3] < polygon_q.bounds[3] /\ polygon_p.bounds[4] < polygon_q.bounds[3])
    /\ ~(\/ polygon_p.bounds[1] > polygon_q.bounds[2] /\ polygon_p.bounds[2] > polygon_q.bounds[2]
         \/ polygon_p.bounds[1] < polygon_q.bounds[1] /\ polygon_p.bounds[2] < polygon_q.bounds[1])
    /\ relative_pos(polygon_q, polygon_p) = 0
    /\ relative_pos(polygon_p, polygon_q) = 0
    /\ Overlaps(Projection(polygon_p.verts), Projection(polygon_q.verts))

\* The places from place i on of a list whose polygon is in conflict with the
\* given one, and the first of them (0: none).
ConflictsIn(polygon, list, i) == {k \in i..Len(list) : in_conflict(polygon, list[k])}

FirstConflict(polygon, list, i) ==
    IF ConflictsIn(polygon, list, i) = {} THEN 0
    ELSE CHOOSE k \in ConflictsIn(polygon, list, i) :
             \A m \in ConflictsIn(polygon, list, i) : k <= m

\* resolve_node's walk "while checked_node is not None": the first unresolved
\* polygon of a parent node in conflict with the polygon, as <<it>>, or <<>>.
RECURSIVE ParentConflict(_, _, _)
ParentConflict(cells, checked_node, polygon) ==
    IF checked_node = 0 THEN <<>>
    ELSE IF FirstConflict(polygon, cells[checked_node].unresolved, 1) # 0
    THEN <<cells[checked_node].unresolved[FirstConflict(polygon, cells[checked_node].unresolved, 1)]>>
    ELSE ParentConflict(cells, cells[checked_node].parent, polygon)

\* A scan that looks at the node's own list and at no parent node.
ConflictingInNode(cells, n) ==
    IF FirstConflict(cells[n].unresolved[1], cells[n].unresolved, 2) # 0
    THEN <<cells[n].unresolved[FirstConflict(cells[n].unresolved[1], cells[n].unresolved, 2)]>>
    ELSE <<>>

\* The polygon that resolve_node cuts unresolved[0] of node n by: one of the
\* other unresolved polygons of the node, else one of a parent node.
Conflicting(cells, n) ==
    IF FirstConflict(cells[n].unresolved[1], cells[n].unresolved, 2) # 0
    THEN <<cells[n].unresolved[FirstConflict(cells[n].unresolved[1], cells[n].unresolved, 2)]>>
    ELSE ParentConflict(cells, cells[n].parent, cells[n].unresolved[1])

\* A pass of resolve_node that puts a polygon in conflict back at the end of
\* the list as it is.
AppendUncut(cells, n, fragments) ==
    [cells EXCEPT ![n].unresolved = Tail(@) \o <<cells[n].unresolved[1]>>]

\* A pass of resolve_node that appends the fragments to the resolved list.
AppendFragmentsToResolved(cells, n, fragments) ==
    [cells EXCEPT ![n].unresolved = Tail(@),
                  ![n].resolved = @ \o fragments[1] \o fragments[2]]

\* "del self.unresolved[0]" and the appends of the fragments that are not None.
AppendFragments(cells, n, fragments) ==
    [cells EXCEPT ![n].unresolved = Tail(@) \o fragments[1] \o fragments[2]]

\* One pass of resolve_node's outer loop.
ResolveStep(cells, n, conflicting) ==
    IF conflicting = <<>>
    THEN [cells EXCEPT ![n].resolved = Append(@, cells[n].unresolved[1]),
                       ![n].unresolved = Tail(@)]
    ELSE Once(LAMBDA fragments : AppendFragments(cells, n, fragments),
              cut_conflicting(conflicting[1], cells[n].unresolved[1]))

\* OctreeNode.resolve_node on node n.
RECURSIVE resolve_node(_, _)
resolve_node(cells, n) ==
    IF Len(cells[n].unresolved) = 0 THEN cells
    ELSE Once(LAMBDA next : resolve_node(next, n),
              Once(LAMBDA conflicting : ResolveStep(cells, n, conflicting),
                   Conflicting(cells, n)))

\* "nodes.sort(key=lambda x: x.depth, reverse=True)": the nodes of depth d, then
\* those of the smaller depths, each depth in the order of the list.
\* The list as compress_tree returned it, root first, without the sort.
ByDepthUnsorted(cells, list, d) == list

RECURSIVE ByDepth(_, _, _)
ByDepth(cells, list, d) ==
    SelectSeq(list, LAMBDA n : cells[n].depth = d)
        \o (IF d = 0 THEN <<>> ELSE ByDepth(cells, list, d - 1))

Deepest(cells, list) ==
    CHOOSE d \in {cells[list[k]].depth : k \in 1..Len(list)} :
        \A k \in 1..Len(list) : cells[list[k]].depth <= d

\* "for node in nodes: node.resolve_node()".
RECURSIVE ResolveNodes(_, _, _)
ResolveNodes(cells, list, i) ==
    IF i > Len(list) THEN cells
    ELSE Once(LAMBDA resolved : ResolveNodes(resolved, list, i + 1),
              resolve_node(cells, list[i]))

\* Octree.resolve_conflicts: the tree after the call.
ResolveCompressed(compressed) ==
    [compressed.tree EXCEPT !.nodes =
        ResolveNodes(@, ByDepth(@, compressed.nodes, Deepest(@, compressed.nodes)), 1)]

resolve_conflicts(self) ==
    Once(LAMBDA compressed : ResolveCompressed(compressed), compress_tree(self))

\* The loop of get_resolved_polygons over its growing list of nodes.
RECURSIVE ResolvedLoop(_, _, _, _)
ResolvedLoop(cells, list, i, polygons) ==
    IF i > Len(list) THEN polygons
    ELSE ResolvedLoop(cells,
                      list \o SelectSeq(cells[list[i]].children, LAMBDA c : c # 0),
                      i + 1, polygons \o cells[list[i]].resolved)

\* A collection that stops at the root and does not walk the children.
ResolvedOfRoot(self) == self.nodes[1].resolved

\* Octree.get_resolved_polygons.
get_resolved_polygons(self) == ResolvedLoop(self.nodes, <<1>>, 1, <<>>)

\* The depths that get_z_max_bound compares: z_max = 0 and every vert[2].
VertexDepths(list) ==
    {0} \cup UNION {{list[k].verts[i][3] : i \in 1..Len(list[k].verts)} : k \in 1..Len(list)}

\* Octree.get_z_max_bound: the furthest of them and one more pixel.
get_z_max_bound(list) ==
    POLYGON_CUT_PRECISION
      + (CHOOSE z \in VertexDepths(list) : \A other \in VertexDepths(list) : other <= z)

\* ------------------------------------------------------------ octree calls

\* The octree of gen_svg_body, Octree(0, region.width, 0, region.height, 0,
\* get_z_max_bound(view_polygons)), and then the calls of its methods in any
\* order: the polygons are inserted in the order of the list, each once.
Region == [width |-> 2 * RegionViewpoint[1], height |-> 2 * RegionViewpoint[2]]

OctreeRings == 6..11

Call(name, value) == [call |-> name, value |-> value]

OctreeInit ==
    /\ pc = "octree"
    /\ caller = "Octree"
    /\ \E l \in RingLists(OctreeRings, MaxPolygons) :
          /\ inputs = PolygonList(l)
          /\ view_polygons = PolygonList(l)
          /\ octree = Octree(0, Region.width, 0, Region.height,
                             0, get_z_max_bound(PolygonList(l)))
    /\ sorting_heuristic = "bbmin"
    /\ cut_conflicts = TRUE
    /\ cycle_limit = 1
    /\ viewpoint = RegionViewpoint
    /\ nodes = <<>>
    /\ leaf_nodes = <<>>
    /\ j = 0
    /\ subdivisions = 0
    /\ f = [open |-> FALSE, content |-> <<>>]
    /\ messages = <<>>
    /\ ret = Call("Octree", "None")

Inserted(r) ==
    /\ octree' = r.tree
    /\ ret' = Call("insert_polygon", r.raised)
    /\ view_polygons' = Tail(view_polygons)

InsertPolygon ==
    /\ pc = "octree"
    /\ view_polygons # <<>>
    /\ \E r \in {insert_polygon(octree, Head(view_polygons))} : Inserted(r)
    /\ UNCHANGED <<pc, config, tree, output>>

Compressed(r) ==
    /\ octree' = r.tree
    /\ ret' = Call("compress_tree", r.nodes)

CompressTree ==
    /\ pc = "octree"
    /\ \E r \in {compress_tree(octree)} : Compressed(r)
    /\ UNCHANGED <<pc, config, view_polygons, tree, output>>

ResolveConflicts ==
    /\ pc = "octree"
    /\ octree' = resolve_conflicts(octree)
    /\ ret' = Call("resolve_conflicts", "None")
    /\ UNCHANGED <<pc, config, view_polygons, tree, output>>

GetResolvedPolygons ==
    /\ pc = "octree"
    /\ ret' = Call("get_resolved_polygons", get_resolved_polygons(octree))
    /\ UNCHANGED <<pc, octree, config, view_polygons, tree, output>>

\* An octree over a cube of 8 pixels and small faces in one corner of it, with
\* face 10 across the middle of the cube.
StorageRings == {10, 16, 17, 18, 19}

StorageInit ==
    /\ pc = "octree"
    /\ caller = "Octree"
    /\ \E l \in RingLists(StorageRings, MaxPolygons) :
          /\ inputs = PolygonList(l)
          /\ view_polygons = PolygonList(l)
    /\ octree = Octree(0, Region.width, 0, Region.height, 0, Region.width)
    /\ sorting_heuristic = "bbmin"
    /\ cut_conflicts = TRUE
    /\ cycle_limit = 1
    /\ viewpoint = RegionViewpoint
    /\ nodes = <<>>
    /\ leaf_nodes = <<>>
    /\ j = 0
    /\ subdivisions = 0
    /\ f = [open |-> FALSE, content |-> <<>>]
    /\ messages = <<>>
    /\ ret = Call("Octree", "None")

OctreeNext == InsertPolygon \/ CompressTree \/ ResolveConflicts \/ GetResolvedPolygons

OctreeSpec == OctreeInit /\ [][OctreeNext]_vars

StorageSpec == StorageInit /\ [][OctreeNext]_vars

\* C9: once the tree is compressed it stays compressed, and a call of
\* insert_polygon on it raises TypeError and leaves the tree as it was.
C9_CompressedRefusesInsert ==
    [][octree.compressed =>
          /\ octree'.compressed
          /\ view_polygons' # view_polygons =>
                /\ octree' = octree
                /\ ret' = Call("insert_polygon", "TypeError")]_vars

\* A polygon was refused by a compressed tree that holds polygons below its
\* root.
C9_Witness ==
    /\ octree.compressed
    /\ ret = Call("insert_polygon", "TypeError")
    /\ \E n \in 2..Len(octree.nodes) : octree.nodes[n].unresolved # <<>>

\* Pairs of places of a polygon list whose polygons are in conflict.
ConflictingPairs(list) ==
    {pair \in (1..Len(list)) \X (1..Len(list)) :
        pair[1] # pair[2] /\ in_conflict(list[pair[1]], list[pair[2]])}

\* C10: after resolve_conflicts no two polygons that get_resolved_polygons
\* returns are in conflict, whichever nodes they were stored in.
C10_NoConflictsLeft ==
    ret.call = "resolve_conflicts" => ConflictingPairs(get_resolved_polygons(octree)) = {}

\* The unresolved polygons of the nodes of a tree, collected as
\* get_resolved_polygons collects the resolved ones.
RECURSIVE UnresolvedLoop(_, _, _, _)
UnresolvedLoop(cells, list, i, polygons) ==
    IF i > Len(list) THEN polygons
    ELSE UnresolvedLoop(cells,
                        list \o SelectSeq(cells[list[i]].children, LAMBDA c : c # 0),
                        i + 1, polygons \o cells[list[i]].unresolved)

Unresolved(self) == UnresolvedLoop(self.nodes, <<1>>, 1, <<>>)

\* Two lists hold the same polygons, each once.
SamePolygons(a, b) ==
    /\ Len(a) = Len(b)
    /\ \A k \in 1..Len(a) : \E m \in 1..Len(b) : a[k] = b[m]
    /\ \A k, m \in 1..Len(a) : k # m => a[k] # a[m]

\* C11: a call of resolve_conflicts on a tree built by insertions, none of
\* whose polygons is in conflict with another, cuts nothing: the polygons
\* that get_resolved_polygons returns afterwards are the inserted polygons,
\* each once, with the vertices, bounds and style they were inserted with.
C11_NoConflictNoCut ==
    [][(/\ ret'.call = "resolve_conflicts"
        /\ get_resolved_polygons(octree) = <<>>
        /\ ConflictingPairs(Unresolved(octree)) = {})
          => SamePolygons(get_resolved_polygons(octree'), Unresolved(octree))]_vars

\* resolve_conflicts has returned three polygons, none in conflict with
\* another, some of them out of a node below the root.
C11_Witness ==
    /\ ret.call = "resolve_conflicts"
    /\ Len(get_resolved_polygons(octree)) = 3
    /\ \E n \in 2..Len(octree.nodes) : octree.nodes[n].resolved # <<>>
    /\ ConflictingPairs(get_resolved_polygons(octree)) = {}
    /\ \A k \in 1..Len(get_resolved_polygons(octree)) :
          get_resolved_polygons(octree)[k].ncut = 0

\* ------------------------------------------------------------ repeated cuts

\* Calls of cut_conflicting on a list of polygons, as its callers make them:
\* a polygon of the list that straddles the plane of another one is replaced
\* by its fragments, which are cut again by later calls.  The polygons come
\* with normals corrected for the viewpoint and with a custom stroke.
MaxCuts == 3
CutFaces == {3, 4, 6, 7}

Stroked(list) ==
    [k \in 1..Len(list) |-> [list[k] EXCEPT !.stroke_color = 0, !.stroke_opacity = 0]]

CutInit ==
    /\ pc = "cut_conflicting"
    /\ caller = "DepthSorter"
    /\ viewpoint = RegionViewpoint
    /\ \E l \in RingLists(CutFaces, MaxPolygons) :
          /\ inputs = Stroked(correct_normals(PolygonList(l), RegionViewpoint))
          /\ view_polygons = Stroked(correct_normals(PolygonList(l), RegionViewpoint))
    /\ sorting_heuristic = "bbmin"
    /\ cut_conflicts = TRUE
    /\ cycle_limit = 1
    /\ nodes = <<>>
    /\ leaf_nodes = <<>>
    /\ j = 0
    /\ subdivisions = 0
    /\ f = [open |-> FALSE, content |-> <<>>]
    /\ messages = <<>>
    /\ ret = [call |-> "ViewPolygon", polygon_p |-> <<>>, value |-> <<>>]
    /\ octree = NoValue

CutReturned(b, fragments) ==
    /\ ret' = [call |-> "cut_conflicting", polygon_p |-> <<view_polygons[b]>>,
               value |-> fragments]
    /\ view_polygons' = PopAt(view_polygons, b - 1) \o fragments[1] \o fragments[2]

CutConflicting ==
    /\ pc = "cut_conflicting"
    /\ j < MaxCuts
    /\ \E a, b \in 1..Len(view_polygons) :
          /\ a # b
          /\ relative_pos(view_polygons[a], view_polygons[b]) = 0
          /\ \E fragments \in {cut_conflicting(view_polygons[a], view_polygons[b])} :
                CutReturned(b, fragments)
    /\ j' = j + 1
    /\ UNCHANGED <<pc, octree, config, nodes, leaf_nodes, subdivisions, output>>

CutNext == CutConflicting

CutSpec == CutInit /\ [][CutNext]_vars

\* The style metadata and the normal of a polygon.
Style(polygon) ==
    <<polygon.rgb_color, polygon.stroke_color, polygon.opacity,
      polygon.stroke_opacity, polygon.normal>>

\* C12: the fragments that cut_conflicting returns carry the fill colour, the
\* stroke colour, the two opacities and the normal of the polygon that was
\* cut, whether that polygon was an input or a fragment of earlier cuts.
C12_FragmentsKeepStyle ==
    ret.call = "cut_conflicting" =>
        \A side \in {1, 2} : \A k \in 1..Len(ret.value[side]) :
            Style(ret.value[side][k]) = Style(ret.polygon_p[1])

\* A fragment of two earlier cuts, with a normal turned by correct_normals,
\* was cut into two kept fragments.
C12_Witness ==
    /\ ret.call = "cut_conflicting"
    /\ Len(ret.polygon_p[1].id) + ret.polygon_p[1].ncut >= 3
    /\ ret.polygon_p[1].normal # get_normal(ret.polygon_p[1].verts)
    /\ ret.value[1] # <<>> /\ ret.value[2] # <<>>

\* ------------------------------------------------------------ resolver passes

\* resolve_conflicts pass by pass of the loop "while len(self.unresolved) > 0"
\* of resolve_node, on the octree that gen_svg_body builds from a list of
\* polygons.  The variable nodes is the list "nodes" of resolve_conflicts, j
\* counts the passes of the loop (up to MaxPasses).
MaxPasses == 8
ResolveFaces == {10, 12, 13, 14}

RECURSIVE InsertLoop(_, _, _)
InsertLoop(self, list, i) ==
    IF i > Len(list) THEN self
    ELSE InsertLoop(insert_polygon(self, list[i]).tree, list, i + 1)

\* "for polygon in view_polygons: octree.insert_polygon(polygon)".
BuiltOctree(list) ==
    InsertLoop(Octree(0, Region.width, 0, Region.height, 0, get_z_max_bound(list)),
               list, 1)

ResolveInit ==
    /\ pc = "resolve_conflicts"
    /\ caller = "Octree"
    /\ \E l \in RingLists(ResolveFaces, MaxPolygons) :
          /\ inputs = PolygonList(l)
          /\ octree = BuiltOctree(PolygonList(l))
    /\ view_polygons = <<>>
    /\ sorting_heuristic = "bbmin"
    /\ cut_conflicts = TRUE
    /\ cycle_limit = MaxCycleLimit
    /\ viewpoint = RegionViewpoint
    /\ nodes = <<>>
    /\ leaf_nodes = <<>>
    /\ j = 0
    /\ subdivisions = 0
    /\ f = [open |-> FALSE, content |-> <<>>]
    /\ messages = <<>>
    /\ ret = Call("insert_polygon", "None")

SortedNodes(compressed) ==
    /\ octree' = compressed.tree
    /\ nodes' = ByDepth(compressed.tree.nodes, compressed.nodes,
                        Deepest(compressed.tree.nodes, compressed.nodes))

\* "nodes = self.compress_tree()" and the sort.
ResolveConflictsStart ==
    /\ pc = "resolve_conflicts"
    /\ \E compressed \in {compress_tree(octree)} : SortedNodes(compressed)
    /\ pc' = "resolve_node"
    /\ UNCHANGED <<ret, config, view_polygons, leaf_nodes, j, subdivisions, output>>

\* One pass of the loop of resolve_node on the first node left.
ResolveNodePass ==
    /\ pc = "resolve_node"
    /\ nodes # <<>>
    /\ Len(octree.nodes[Head(nodes)].unresolved) > 0
    /\ \E conflicting \in {Conflicting(octree.nodes, Head(nodes))} :
          octree' = [octree EXCEPT !.nodes = ResolveStep(@, Head(nodes), conflicting)]
    /\ j' = IF j < MaxPasses THEN j + 1 ELSE j
    /\ UNCHANGED <<pc, ret, config, view_polygons, nodes, leaf_nodes, subdivisions, output>>

\* The loop of resolve_node ends; "for node in nodes" goes on.
ResolveNodeReturn ==
    /\ pc = "resolve_node"
    /\ nodes # <<>>
    /\ Len(octree.nodes[Head(nodes)].unresolved) = 0
    /\ nodes' = Tail(nodes)
    /\ UNCHANGED <<pc, direct, config, view_polygons, leaf_nodes, j, subdivisions, output>>

ResolveConflictsReturn ==
    /\ pc = "resolve_node"
    /\ nodes = <<>>
    /\ pc' = "returned"
    /\ ret' = Call("resolve_conflicts", "None")
    /\ UNCHANGED <<octree, config, view_polygons, tree, output>>

ResolveNext ==
    \/ ResolveConflictsStart
    \/ ResolveNodePass
    \/ ResolveNodeReturn
    \/ ResolveConflictsReturn

\* Sequential code: a step that can be taken is taken.
ResolveSpec ==
    /\ ResolveInit
    /\ [][ResolveNext]_vars
    /\ WF_vars(ResolveConflictsStart)
    /\ WF_vars(ResolveNodePass)
    /\ WF_vars(ResolveNodeReturn)
    /\ WF_vars(ResolveConflictsReturn)

p_obscures_q(polygon_p, polygon_q) ==
    /\ ~(\/ polygon_p.bounds[3] > polygon_q.bounds[4] /\ polygon_p.bounds[4] > polygon_q.bounds[4]
         \/ polygon_p.bounds[3] < polygon_q.bounds[3] /\ polygon_p.bounds[4] < polygon_q.bounds[3])
    /\ ~(\/ polygon_p.bounds[1] > polygon_q.bounds[2] /\ polygon_p.bounds[2] > polygon_q.bounds[2]
         \/ polygon_p.bounds[1] < polygon_q.bounds[1] /\ polygon_p.bounds[2] < polygon_q.bounds[1])
    /\ relative_pos(polygon_q, polygon_p) # -1
    /\ relative_pos(polygon_p, polygon_q) # 1
    /\ Overlaps(Projection(polygon_p.verts), Projection(polygon_q.verts))

\* a / b rounded to the nearest integer, b # 0.
RoundQuot(a, b) == IF b > 0 THEN RoundDiv(a, b) ELSE RoundDiv(-a, -b)

\* ViewPortClipping.intersect_on_x, _y and _z (axis 1, 2, 3): the point of the
\* line through vert0 and vert1 at the given value of the axis, on the grid.
intersect_on(axis, val, vert0, vert1) ==
    [k \in 1..3 |->
        IF k = axis THEN val
        ELSE vert0[k] + RoundQuot((val - vert0[axis]) * (vert1[k] - vert0[k]),
                                  vert1[axis] - vert0[axis])]

\* The two clipping loops of newell_half along an axis: the ring of the part
\* up to mid (fragment_a), and of the part from mid on (fragment_b).
RECURSIVE ClipMax(_, _, _, _, _)
ClipMax(verts, axis, mid, index, new_verts) ==
    IF index > Len(verts) THEN new_verts
    ELSE ClipMax(verts, axis, mid, index + 1,
           IF verts[index][axis] <= mid /\ verts[(index % Len(verts)) + 1][axis] <= mid
           THEN Append(new_verts, verts[(index % Len(verts)) + 1])
           ELSE IF verts[index][axis] > mid /\ verts[(index % Len(verts)) + 1][axis] <= mid
           THEN new_verts \o <<intersect_on(axis, mid, verts[index], verts[(index % Len(verts)) + 1]),
                               verts[(index % Len(verts)) + 1]>>
           ELSE IF verts[index][axis] <= mid /\ verts[(index % Len(verts)) + 1][axis] > mid
           THEN Append(new_verts,
                       intersect_on(axis, mid, verts[index], verts[(index % Len(verts)) + 1]))
           ELSE new_verts)

RECURSIVE ClipMin(_, _, _, _, _)
ClipMin(verts, axis, mid, index, new_verts) ==
    IF index > Len(verts) THEN new_verts
    ELSE ClipMin(verts, axis, mid, index + 1,
           IF verts[index][axis] >= mid /\ verts[(index % Len(verts)) + 1][axis] >= mid
           THEN Append(new_verts, verts[(index % Len(verts)) + 1])
           ELSE IF verts[index][axis] < mid /\ verts[(index % Len(verts)) + 1][axis] >= mid
           THEN new_verts \o <<intersect_on(axis, mid, verts[index], verts[(index % Len(verts)) + 1]),
                               verts[(index % Len(verts)) + 1]>>
           ELSE IF verts[index][axis] >= mid /\ verts[(index % Len(verts)) + 1][axis] < mid
           THEN Append(new_verts,
                       intersect_on(axis, mid, verts[index], verts[(index % Len(verts)) + 1]))
           ELSE new_verts)

\* The axis that newell_half halves on: z if the box is longest in z, else y
\* if it is longer in y than in x, else x.
HalfAxis(bounds) ==
    IF bounds[6] - bounds[5] > bounds[2] - bounds[1] /\ bounds[6] - bounds[5] > bounds[4] - bounds[3]
    THEN 3
    ELSE IF bounds[4] - bounds[3] > bounds[2] - bounds[1] THEN 2 ELSE 1

\* "bounds[min] + len / 2.0" on the grid.
HalfMid(bounds, axis) ==
    bounds[2 * axis - 1] + RoundDiv(bounds[2 * axis] - bounds[2 * axis - 1], 2)

\* A deepcopy of the halved polygon with the ring of one half.
HalfFragment(view_polygon, copy, verts) ==
    [view_polygon EXCEPT !.verts = verts, !.bounds = recalculate_bounds(verts),
                         !.ncut = 0,
                         !.id = Append(view_polygon.id, view_polygon.ncut + copy)]

\* DepthSorter.newell_half: <<fragment_a, fragment_b>>, each a list of one.
newell_half(view_polygon) ==
    << <<HalfFragment(view_polygon, 1,
            ClipMax(view_polygon.verts, HalfAxis(view_polygon.bounds),
                    HalfMid(view_polygon.bounds, HalfAxis(view_polygon.bounds)), 1, <<>>))>>,
       <<HalfFragment(view_polygon, 2,
            ClipMin(view_polygon.verts, HalfAxis(view_polygon.bounds),
                    HalfMid(view_polygon.bounds, HalfAxis(view_polygon.bounds)), 1, <<>>))>> >>

\* The places of a list before which newell_insert_fragments may put a
\* fragment: an unmarked polygon of smaller maximum depth.
InsertPlaces(list, fragment) ==
    {k \in 1..Len(list) : ~list[k].marked /\ fragment.bounds[6] > list[k].bounds[6]}

InsertBefore(list, k, polygon) ==
    [m \in 1..(Len(list) + 1) |->
        IF m < k THEN list[m] ELSE IF m = k THEN polygon ELSE list[m - 1]]

\* The inner loop of newell_insert_fragments for one fragment: it is inserted
\* before the first such place, and not at all when there is none.
InsertFragment(list, fragment) ==
    IF InsertPlaces(list, fragment) = {} THEN list
    ELSE InsertBefore(list,
                      CHOOSE k \in InsertPlaces(list, fragment) :
                          \A m \in InsertPlaces(list, fragment) : k <= m,
                      fragment)

Unmarked(fragments) ==
    [k \in 1..Len(fragments) |-> [fragments[k] EXCEPT !.marked = FALSE]]

\* DepthSorter.newell_insert_fragments; a fragment that is None is an empty
\* list here.
RECURSIVE InsertFragments(_, _, _)
InsertFragments(list, fragments, i) ==
    IF i > Len(fragments) THEN list
    ELSE InsertFragments(InsertFragment(list, fragments[i]), fragments, i + 1)

newell_insert_fragments(list, fragments) ==
    InsertFragments(list, Unmarked(fragments[1] \o fragments[2]), 1)

\* What the for loop of depth_sort_newell leaves: the list, whether it was
\* changed (get_new_p), and the fragments made by a cut.
Outcome(list, changed, fragments) ==
    [list |-> list, changed |-> changed, fragments |-> fragments]

\* "Marks q and moves it to the top of the list"; q is view_polygons[i + 1].
NewellMark(list, i) ==
    Outcome(<<[list[i + 2] EXCEPT !.marked = TRUE]>> \o PopAt(list, i + 1), TRUE, <<>>)

Reinserted(list, fragments) ==
    Outcome(newell_insert_fragments(list, fragments), TRUE,
            Unmarked(fragments[1] \o fragments[2]))

\* "Splits and inserts fragments": p is cut by the plane of q, else q by the
\* plane of p, else p is halved.
NewellCut(list, i) ==
    IF relative_pos(list[i + 2], list[1]) = 0
    THEN Once(LAMBDA fragments : Reinserted(Tail(list), fragments),
              cut_conflicting(list[i + 2], list[1]))
    ELSE IF relative_pos(list[1], list[i + 2]) = 0
    THEN Once(LAMBDA fragments : Reinserted(PopAt(list, i + 1), fragments),
              cut_conflicting(list[1], list[i + 2]))
    ELSE Once(LAMBDA fragments : Reinserted(Tail(list), fragments),
              newell_half(list[1]))

\* "for i, polygon_q in enumerate(view_polygons[1:])" from place i on.
RECURSIVE NewellScan(_, _)
NewellScan(list, i) ==
    IF i + 2 > Len(list) THEN Outcome(list, FALSE, <<>>)
    ELSE IF list[1].bounds[5] < list[i + 2].bounds[6]
    THEN IF ~p_obscures_q(list[1], list[i + 2]) THEN NewellScan(list, i + 1)
         ELSE IF list[i + 2].marked THEN NewellCut(list, i)
         ELSE IF ~p_obscures_q(list[i + 2], list[1]) THEN NewellMark(list, i)
         ELSE NewellCut(list, i)
    ELSE IF list[i + 2].marked THEN NewellScan(list, i + 1)
    ELSE Outcome(list, FALSE, <<>>)

\* ------------------------------------------------------------ Newell calls

\* depth_sort_newell on a list of polygons, pass by pass of its while loop.
\* ret holds sorted_polygons and the fragments of the cut of the last pass;
\* j counts the passes (up to MaxPasses).
NewellFaces == {6, 7, 10, 11, 12, 13, 14}

NewellRet(sorted_polygons, fragments) ==
    [call |-> "depth_sort_newell", sorted_polygons |-> sorted_polygons,
     fragments |-> fragments]

NewellInit ==
    /\ pc = "depth_sort_newell"
    /\ caller = "DepthSorter"
    /\ viewpoint = RegionViewpoint
    /\ \E l \in RingLists(NewellFaces, MaxPolygons) :
          /\ inputs = correct_normals(PolygonList(l), RegionViewpoint)
          /\ view_polygons = correct_normals(PolygonList(l), RegionViewpoint)
    /\ sorting_heuristic = "heuristic.bbmax"
    /\ cut_conflicts = TRUE
    /\ cycle_limit = 1
    /\ nodes = <<>>
    /\ leaf_nodes = <<>>
    /\ j = 0
    /\ subdivisions = 0
    /\ f = [open |-> FALSE, content |-> <<>>]
    /\ messages = <<>>
    /\ ret = NewellRet(<<>>, <<>>)
    /\ octree = NoValue

\* "view_polygons.sort(key = lambda polygon: polygon.bounds[5], reverse = True)".
DepthSortNewellStart ==
    /\ pc = "depth_sort_newell"
    /\ view_polygons' = SortReverse(view_polygons, Len(view_polygons), "heuristic.bbmax")
    /\ pc' = "while"
    /\ UNCHANGED <<direct, config, tree, output>>

NewellPassed(outcome) ==
    IF outcome.changed
    THEN /\ view_polygons' = outcome.list
         /\ ret' = NewellRet(ret.sorted_polygons, outcome.fragments)
    ELSE /\ view_polygons' = Tail(view_polygons)
         /\ ret' = NewellRet(Append(ret.sorted_polygons, view_polygons[1]), <<>>)

\* One pass of "while len(view_polygons) > 0".
NewellPass ==
    /\ pc = "while"
    /\ Len(view_polygons) > 0
    /\ j < MaxPasses
    /\ \E outcome \in {NewellScan(view_polygons, 0)} : NewellPassed(outcome)
    /\ j' = j + 1
    /\ UNCHANGED <<pc, octree, config, nodes, leaf_nodes, subdivisions, output>>

\* "return sorted_polygons".
NewellReturn ==
    /\ pc = "while"
    /\ Len(view_polygons) = 0
    /\ pc' = "returned"
    /\ UNCHANGED <<direct, config, view_polygons, tree, output>>

NewellNext == DepthSortNewellStart \/ NewellPass \/ NewellReturn

NewellSpec == NewellInit /\ [][NewellNext]_vars

\* C14: when a pass of depth_sort_newell has forced a cut, every fragment that
\* the cut has kept is in the candidate list afterwards.
C14_FragmentsReinserted ==
    pc = "while" =>
        \A k \in 1..Len(ret.fragments) :
            \E m \in 1..Len(view_polygons) : view_polygons[m] = ret.fragments[k]

\* ------------------------------------------------------------------------
\* scene_to_svg.py: the global sorting option of the scene exporter.
\* Depths are in grid steps; a bounding box is <<zMin, zMax>> at bounds[5]
\* and bounds[6] (bounds[4] and bounds[5] of the code).

\* EnumPropertyDictionaries.global_sorting.
global_sorting(option) ==
    CASE option = "sorting.bbmin" -> 0
      [] option = "sorting.bbmax" -> 1
      [] option = "sorting.bbmid" -> 2

\* The identifiers of ExportSVGProperties.global_sorting_options.
global_sorting_options == {"sorting.bbmin", "sorting.bbmax", "sorting.bbmid"}

Returned(value) == [raised |-> FALSE, value |-> value]

Raised(error) == [raised |-> TRUE, value |-> error]

\* ViewType.get_depth and its overrides, which are copies of each other.
get_depth(self, option) ==
    IF option = 1 THEN Returned(self.bounds[5])
    ELSE IF option = 2 THEN Returned(self.bounds[6])
    ELSE IF option = 3 THEN Returned((self.bounds[5] + self.bounds[6]) \div 2)
    ELSE Raised("TypeError")

ViewType(type, zMin, zMax) == [type |-> type, bounds |-> <<0, 0, 0, 0, zMin, zMax>>]

\* Bounding boxes whose minimum, maximum and centre order them differently.
SceneBoxes == {<<2, 10>>, <<4, 6>>, <<6, 8>>}

MaxElements == 2

SceneElements(type) == {ViewType(type, b[1], b[2]) : b \in SceneBoxes}

SceneLists(type, n) == UNION {[1..k -> SceneElements(type)] : k \in 0..n}

\* "list.sort(key = lambda element: element.get_depth(sort_option), reverse = True)":
\* stable, greatest key first.
DepthPlace(sorted, element, option) ==
    Cardinality({i \in 1..Len(sorted) :
        get_depth(sorted[i], option).value >= get_depth(element, option).value})

DepthInsert(sorted, element, option) ==
    SubSeq(sorted, 1, DepthPlace(sorted, element, option))
        \o <<element>>
        \o SubSeq(sorted, DepthPlace(sorted, element, option) + 1, Len(sorted))

RECURSIVE DepthSort(_, _, _)
DepthSort(list, n, option) ==
    IF n = 0 THEN <<>>
    ELSE DepthInsert(DepthSort(list, n - 1, option), list[n], option)

SortRaises(list, option) ==
    \E i \in 1..Len(list) : get_depth(list[i], option).raised

\* The state at the call of convert_all_curves: the polygons are sorted by
\* depth_sort_bb_depth under "heuristic.bbmax", the curves are as converted.
SceneInit ==
    /\ pc = "convert_all_curves"
    /\ caller = "SVGFileGenerator"
    /\ sorting_heuristic \in global_sorting_options
    /\ view_polygons \in {l \in SceneLists("ViewPolygon", MaxElements) :
            \A i \in 1..Len(l) - 1 : l[i].bounds[6] >= l[i + 1].bounds[6]}
    /\ inputs \in SceneLists("ViewCurve", MaxElements)
    /\ cut_conflicts = FALSE
    /\ cycle_limit = 1
    /\ viewpoint = RegionViewpoint
    /\ nodes = <<>>
    /\ leaf_nodes = <<>>
    /\ j = 0
    /\ subdivisions = 0
    /\ f = [open |-> FALSE, content |-> <<>>]
    /\ messages = <<>>
    /\ ret = Call("objects_to_svg_group", "None")
    /\ octree = NoValue

\* ObjectConverter.convert_all_curves: the sort of the converted curves. The
\* key function runs once for each element of the list.
ConvertAllCurves ==
    /\ pc = "convert_all_curves"
    /\ IF SortRaises(inputs, global_sorting(sorting_heuristic))
       THEN /\ pc' = "raised"
            /\ ret' = Call("convert_all_curves", "TypeError")
            /\ UNCHANGED inputs
       ELSE /\ pc' = "sorting_queue"
            /\ inputs' = DepthSort(inputs, Len(inputs), global_sorting(sorting_heuristic))
            /\ UNCHANGED ret
    /\ UNCHANGED <<octree, caller, cut_conflicts, sorting_heuristic, cycle_limit,
                   viewpoint, view_polygons, tree, output>>

NonEmpty(groups) == SelectSeq(groups, LAMBDA group : Len(group) > 0)

Greatest(set) == CHOOSE x \in set : \A y \in set : y <= x

Least(set) == CHOOSE x \in set : \A y \in set : x <= y

\* "z_max = max(z_max, group[0].bounds[5])", "z_min = min(z_min, group[-1].bounds[4])".
QueueBounds(groups) ==
    IF groups = <<>> THEN <<"inf", "-inf">>
    ELSE <<Least({groups[i][Len(groups[i])].bounds[5] : i \in 1..Len(groups)}),
           Greatest({groups[i][1].bounds[6] : i \in 1..Len(groups)})>>

\* objects_to_svg_group: the non-empty groups are put into the sorting queue.
BuildSortingQueue ==
    /\ pc = "sorting_queue"
    /\ nodes' = NonEmpty(<<view_polygons, inputs>>)
    /\ ret' = Call("sorting_queue", QueueBounds(NonEmpty(<<view_polygons, inputs>>)))
    /\ pc' = "while"
    /\ UNCHANGED <<octree, config, view_polygons, leaf_nodes, j, subdivisions, output>>

\* "if el_depth > next_depth": the first group whose first element is deepest.
NextGroupIndex(queue, option) ==
    CHOOSE i \in 1..Len(queue) :
        /\ \A k \in 1..Len(queue) :
              get_depth(queue[k][1], option).value <= get_depth(queue[i][1], option).value
        /\ \A k \in 1..(i - 1) :
              get_depth(queue[k][1], option).value < get_depth(queue[i][1], option).value

PopLeft(queue, i) ==
    IF Len(queue[i]) = 1
    THEN SubSeq(queue, 1, i - 1) \o SubSeq(queue, i + 1, Len(queue))
    ELSE [queue EXCEPT ![i] = Tail(queue[i])]

\* One pass of "while len(sorting_queue) > 1".
MergePass ==
    /\ pc = "while"
    /\ Len(nodes) > 1
    /\ IF \E i \in 1..Len(nodes) : get_depth(nodes[i][1], global_sorting(sorting_heuristic)).raised
       THEN /\ pc' = "raised"
            /\ ret' = Call("objects_to_svg_group", "TypeError")
            /\ UNCHANGED <<nodes, f>>
       ELSE /\ f' = [f EXCEPT !.content = Append(@,
                        nodes[NextGroupIndex(nodes, global_sorting(sorting_heuristic))][1])]
            /\ nodes' = PopLeft(nodes, NextGroupIndex(nodes, global_sorting(sorting_heuristic)))
            /\ UNCHANGED <<pc, ret>>
    /\ UNCHANGED <<octree, config, view_polygons, leaf_nodes, j, subdivisions, messages>>

\* "for el in sorting_queue[0]" and the return of the group.
WriteRemaining ==
    /\ pc = "while"
    /\ Len(nodes) <= 1
    /\ f' = [f EXCEPT !.content = IF nodes = <<>> THEN @ ELSE @ \o nodes[1]]
    /\ pc' = "returned"
    /\ ret' = Call("objects_to_svg_group", ret.value)
    /\ UNCHANGED <<octree, config, view_polygons, tree, messages>>

SceneNext == ConvertAllCurves \/ BuildSortingQueue \/ MergePass \/ WriteRemaining

SceneSpec == SceneInit /\ [][SceneNext]_vars

\* The depth each option names in global_sorting_options: the minimum depth
\* of the bounding box, the maximum depth, the depth of its centre.
NamedDepth(element, option) ==
    CASE option = "sorting.bbmin" -> element.bounds[5]
      [] option = "sorting.bbmax" -> element.bounds[6]
      [] option = "sorting.bbmid" -> (element.bounds[5] + element.bounds[6]) \div 2

\* C15: for each of the three global sorting options get_depth returns the
\* depth the option names and never raises, so that the export raises no
\* TypeError and the sorted curves are in the order of the named depth.
C15_SortsByNamedDepth ==
    /\ pc # "raised"
    /\ \A i \in 1..Len(inputs) :
          /\ ~get_depth(inputs[i], global_sorting(sorting_heuristic)).raised
          /\ get_depth(inputs[i], global_sorting(sorting_heuristic)).value
                = NamedDepth(inputs[i], sorting_heuristic)
    /\ pc \in {"sorting_queue", "while", "returned"} =>
          \A i \in 1..Len(inputs) - 1 :
              NamedDepth(inputs[i], sorting_heuristic)
                  >= NamedDepth(inputs[i + 1], sorting_heuristic)

\* ------------------------------------------------------------------------
\* The shape of the BSP tree.

Children(n) == {nodes[n].front_node, nodes[n].back_node} \ {0}

Parents(n) == {m \in 1..Len(nodes) : n \in Children(m)}

\* C16: when depth_sort_bsp has returned a tree for a non-empty list, every
\* node holds exactly one polygon and a leaf has no children; at every moment
\* of the build a node that is no leaf holds one polygon only, and a child
\* node exists only with a polygon that was routed to it, under one parent.
C16_OnePolygonPerNode ==
    /\ \A n \in 1..Len(nodes) :
          /\ ~nodes[n].is_leaf => Len(nodes[n].polygon_list) = 1
          /\ nodes[n].is_leaf => Children(n) = {}
          /\ Children(n) \subseteq (n + 1)..Len(nodes)
          /\ n > 1 => nodes[n].polygon_list # <<>> /\ Cardinality(Parents(n)) = 1
    /\ TreeReturned /\ inputs # <<>> =>
          \A n \in 1..Len(nodes) : Len(nodes[n].polygon_list) = 1

\* A returned tree with an inner node below the root and with leaves.
C16_Witness ==
    /\ TreeReturned
    /\ \E n \in 2..Len(nodes) : ~nodes[n].is_leaf /\ Children(n) # {}
    /\ \E n \in 2..Len(nodes) : nodes[n].is_leaf /\ Len(nodes[n].polygon_list) = 1

\* ------------------------------------------------------------------------
\* The separation of the BSP tree.

\* The nodes of the subtree below node n of the tree cells (0 is None).
RECURSIVE Subtree(_, _)
Subtree(cells, n) ==
    IF n = 0 THEN {}
    ELSE {n} \cup Subtree(cells, cells[n].front_node) \cup Subtree(cells, cells[n].back_node)

SubtreePolygons(cells, n) ==
    UNION {{cells[m].polygon_list[i] : i \in 1..Len(cells[m].polygon_list)} :
              m \in Subtree(cells, n)}

ListOf(cells, n) == IF n = 0 THEN <<>> ELSE cells[n].polygon_list

\* The polygons a subdivision by the plane may put into the front child and
\* into the back child, out of the polygons it routes.
FrontRouted(plane, rest) ==
    {rest[i] : i \in {k \in 1..Len(rest) : relative_pos(plane, rest[k]) = 1}}
    \cup UNION {{cut_conflicting(plane, rest[i])[1][m] :
                    m \in 1..Len(cut_conflicting(plane, rest[i])[1])} :
                 i \in {k \in 1..Len(rest) : relative_pos(plane, rest[k]) = 0}}

BackRouted(plane, rest) ==
    {rest[i] : i \in {k \in 1..Len(rest) : relative_pos(plane, rest[k]) = -1}}
    \cup UNION {{cut_conflicting(plane, rest[i])[2][m] :
                    m \in 1..Len(cut_conflicting(plane, rest[i])[2])} :
                 i \in {k \in 1..Len(rest) : relative_pos(plane, rest[k]) = 0}}

StraddlingRouted(plane, rest) ==
    {rest[i] : i \in {k \in 1..Len(rest) : relative_pos(plane, rest[k]) = 0}}

Elements(list) == {list[i] : i \in 1..Len(list)}

\* The subdivision of node n that turned its list into the tree after it put
\* into each child the polygons classified for that side and the fragments of
\* that side, and no straddling polygon.
RoutedBySide(after, n, list, mid) ==
    /\ Elements(ListOf(after, after[n].front_node))
          = FrontRouted(list[mid + 1], PopAt(list, mid))
    /\ Elements(ListOf(after, after[n].back_node))
          = BackRouted(list[mid + 1], PopAt(list, mid))
    /\ StraddlingRouted(list[mid + 1], PopAt(list, mid))
          \cap (Elements(ListOf(after, after[n].front_node))
                \cup Elements(ListOf(after, after[n].back_node))) = {}

\* C17: every subdivision of the build puts into the front child only the
\* polygons classified Front of the node's plane and the front fragments of
\* the cuts by that plane, into the back child only those classified Behind
\* and the back fragments, and no straddling polygon uncut; and in every
\* state of the build every polygon of a front subtree is classified Front
\* of the node's plane and every polygon of a back subtree Behind.
C17_Separation ==
    /\ pc = "depth_sort_bsp" /\ Len(view_polygons) > 1 =>
          RoutedBySide(RootNode(view_polygons, PyRoundHalf(Len(view_polygons))), 1,
                       view_polygons, PyRoundHalf(Len(view_polygons)))
    /\ pc = "bsp_partition" =>
          \A k \in Subdivided(nodes, leaf_nodes) :
              RoutedBySide(bsp_partition(nodes, leaf_nodes).nodes, leaf_nodes[k],
                           nodes[leaf_nodes[k]].polygon_list,
                           PyRoundHalf(Len(nodes[leaf_nodes[k]].polygon_list)))
    /\ \A n \in 1..Len(nodes) :
          ~nodes[n].is_leaf =>
              /\ \A q \in SubtreePolygons(nodes, nodes[n].front_node) :
                    relative_pos(nodes[n].polygon_list[1], q) = 1
              /\ \A q \in SubtreePolygons(nodes, nodes[n].back_node) :
                    relative_pos(nodes[n].polygon_list[1], q) = -1

\* A tree in which a front subtree and a back subtree hold fragments of cut
\* polygons, below a node that has grandchildren.
C17_Witness ==
    \E n \in 1..Len(nodes) :
        /\ \E q \in SubtreePolygons(nodes, nodes[n].front_node) : q.ncut > 0
        /\ \E q \in SubtreePolygons(nodes, nodes[n].back_node) : Len(q.id) > 1
        /\ Cardinality(Subtree(nodes, n)) > 3

\* ------------------------------------------------------------------------
\* Polygons in the plane of a node.

\* Every vertex of the polygon is On the plane: within the threshold of it.
AllOn(plane, polygon) ==
    \A i \in 1..Len(polygon.verts) : vert_relative_pos(plane, polygon.verts[i]) = 0

\* The polygons the subdivision of a list routes that are On its plane.
OnPlane(list, mid) ==
    {q \in Elements(PopAt(list, mid)) : AllOn(list[mid + 1], q)}

\* The subdivision of node n that turned its list into the tree after it
\* took each polygon On its plane for Front and put it whole into the front
\* child alone.
OnPlaneToFront(after, n, list, mid) ==
    \A q \in OnPlane(list, mid) :
        /\ relative_pos(list[mid + 1], q) = 1
        /\ q \in Elements(ListOf(after, after[n].front_node))
        /\ q \notin Elements(ListOf(after, after[n].back_node))
        /\ \A r \in Elements(ListOf(after, after[n].front_node))
                      \cup Elements(ListOf(after, after[n].back_node)) :
              r.id = q.id => r = q

\* C18: a polygon all of whose vertices are On the plane of the node being
\* subdivided is classified Front by relative_pos and is in the front child
\* after the subdivision, whole, and not in the back child.
C18_OnPlaneIsFront ==
    /\ pc = "depth_sort_bsp" /\ Len(view_polygons) > 1 =>
          OnPlaneToFront(RootNode(view_polygons, PyRoundHalf(Len(view_polygons))), 1,
                         view_polygons, PyRoundHalf(Len(view_polygons)))
    /\ pc = "bsp_partition" =>
          \A k \in Subdivided(nodes, leaf_nodes) :
              OnPlaneToFront(bsp_partition(nodes, leaf_nodes).nodes, leaf_nodes[k],
                             nodes[leaf_nodes[k]].polygon_list,
                             PyRoundHalf(Len(nodes[leaf_nodes[k]].polygon_list)))

\* A leaf about to be subdivided by a plane that one of its other polygons
\* lies on.
C18_Witness ==
    /\ pc = "bsp_partition"
    /\ \E k \in Subdivided(nodes, leaf_nodes) :
          OnPlane(nodes[leaf_nodes[k]].polygon_list,
                  PyRoundHalf(Len(nodes[leaf_nodes[k]].polygon_list))) # {}

\* ------------------------------------------------------------------------
\* The choice of the splitting polygon.

MaxListLen == 7

\* Lists of n polygons told apart by their place and one of two colours;
\* only the identity of a polygon matters to the pop.
PopLists(n) ==
    UNION {{[i \in 1..k |-> [id |-> <<i>>, rgb_color |-> c[i]]] : c \in [1..k -> {0, 1}]} :
              k \in 1..n}

\* The state at "view_polygons.pop(round(len(view_polygons) / 2))", as
\* depth_sort_bsp reaches it with a non-empty list and bsp_partition with more
\* than one polygon.
PopInit ==
    /\ pc = "pop"
    /\ caller = "DepthSorter"
    /\ \E l \in PopLists(MaxListLen) :
          /\ inputs = l
          /\ view_polygons = l
    /\ cut_conflicts = TRUE
    /\ sorting_heuristic = "heuristic.bbmid"
    /\ cycle_limit = 1
    /\ viewpoint = RegionViewpoint
    /\ nodes = <<>>
    /\ leaf_nodes = <<>>
    /\ j = 0
    /\ subdivisions = 0
    /\ f = [open |-> FALSE, content |-> <<>>]
    /\ messages = <<>>
    /\ ret = [index |-> -1, value |-> NoValue]
    /\ octree = NoValue

\* list.pop(i): IndexError for an index out of range, else the element is
\* taken out and returned.
Popped(i) ==
    IF i >= Len(view_polygons)
    THEN /\ pc' = "IndexError"
         /\ ret' = [index |-> i, value |-> NoValue]
         /\ UNCHANGED view_polygons
    ELSE /\ pc' = "popped"
         /\ ret' = [index |-> i, value |-> view_polygons[i + 1]]
         /\ view_polygons' = PopAt(view_polygons, i)

PopMiddle ==
    /\ pc = "pop"
    /\ \E i \in {PyRoundHalf(Len(view_polygons))} : Popped(i)
    /\ UNCHANGED <<octree, config, tree, output>>

PopNext == PopMiddle

PopSpec == PopInit /\ [][PopNext]_vars

\* C19 as stated: the popped index is valid and is floor(n / 2).
C19_MiddleIndex ==
    /\ pc # "IndexError"
    /\ pc = "popped" =>
          /\ ret.index < Len(inputs)
          /\ ret.index = Len(inputs) \div 2

\* C19: for every list length n >= 1 the pop raises no IndexError, and the
\* popped index is floor(n / 2) unless n leaves the remainder 3 when divided
\* by 4, where it is floor(n / 2) + 1: the nearest even index to n / 2.  The
\* polygon at that index is the one taken out of the list.
C19_NearestEvenIndex ==
    /\ pc # "IndexError"
    /\ pc = "popped" =>
          /\ ret.index \in 0..(Len(inputs) - 1)
          /\ ret.index = IF Len(inputs) % 4 = 3 THEN Len(inputs) \div 2 + 1
                         ELSE Len(inputs) \div 2
          /\ Len(inputs) % 2 = 1 => ret.index % 2 = 0
          /\ ret.value = inputs[ret.index + 1]
          /\ Len(view_polygons) = Len(inputs) - 1
          /\ \A i \in 1..Len(view_polygons) : view_polygons[i] # ret.value

\* The pop from a list of three polygons takes the last one, not the middle.
C19_Witness ==
    /\ pc = "popped"
    /\ Len(inputs) = 3
    /\ ret.index = 2
    /\ ret.value = inputs[3]

\* ------------------------------------------------------------------------
\* The rings of a cut.

\* The plane of a direct call of cut_conflicting: ring 15, nearly across the
\* depth axis.
RingPlane == 15

\* The vertices of the polygons cut: two grid steps of depth in front of the
\* plane's first vertex and two behind it, on the plane, and one grid step to
\* either side of it along the plane's slope.
RingVerts ==
    {<<1000, 0, 1002>>, <<1000, 500, 1000>>, <<999, 1000, 1000>>,
     <<1000, 1500, 998>>, <<1001, 2000, 1000>>}

RECURSIVE RingsOf(_)
RingsOf(n) ==
    IF n = 0 THEN {<<>>}
    ELSE {Append(l, v) : l \in RingsOf(n - 1), v \in RingVerts}

\* A direct call cut_conflicting(plane_polygon, polygon_p): inputs is the pair,
\* polygon_p a ring of three to MaxRingLen + 1 different vertices.
RingInit ==
    /\ pc = "cut_conflicting"
    /\ caller = "DepthSorter"
    /\ \E n \in 3..(MaxRingLen + 1) : \E verts \in RingsOf(n) :
          /\ ~Repeats(verts)
          /\ inputs = <<InputPolygon(1, RingPlane), RingPolygon(<<2>>, verts)>>
    /\ cut_conflicts = TRUE
    /\ sorting_heuristic = "heuristic.bbmid"
    /\ cycle_limit = 1
    /\ viewpoint = RegionViewpoint
    /\ view_polygons = <<>>
    /\ nodes = <<>>
    /\ leaf_nodes = <<>>
    /\ j = 0
    /\ subdivisions = 0
    /\ f = [open |-> FALSE, content |-> <<>>]
    /\ messages = <<>>
    /\ ret = [rings |-> <<<<>>, <<>>>>, value |-> NoValue]
    /\ octree = NoValue

\* The call: front_pol_verts and back_pol_verts at the end of the loop, and
\* the pair returned.
CutConflictingRings ==
    /\ pc = "cut_conflicting"
    /\ ret' = [rings |-> CutRings(inputs[1], inputs[2].verts),
               value |-> cut_conflicting(inputs[1], inputs[2])]
    /\ pc' = "returned"
    /\ UNCHANGED <<octree, config, view_polygons, tree, output>>

RingNext == CutConflictingRings

RingSpec == RingInit /\ [][RingNext]_vars

\* The side of vertex i of the polygon cut, and the vertex in front of it in
\* the ring.
InFront(i) == vert_relative_pos_bool(inputs[1], inputs[2].verts[i])

Previous(i) == IF i = 1 THEN Len(inputs[2].verts) ELSE i - 1

\* The vertices at which the ring changes sides, and those of them at which
\* the intersection fails.
SideChanges == {i \in 1..Len(inputs[2].verts) : InFront(i) # InFront(Previous(i))}

FailedChanges ==
    {i \in SideChanges :
        IntersectFails(inputs[1], inputs[2].verts[i], inputs[2].verts[Previous(i)])}

\* Every vertex of the polygon is in the ring of its side, a vertex at a
\* failed intersection in both, and the ring changes sides an even number of
\* times.
VerticesRouted ==
    /\ \A i \in 1..Len(inputs[2].verts) :
          /\ InFront(i) => inputs[2].verts[i] \in Elements(ret.rings[1])
          /\ ~InFront(i) => inputs[2].verts[i] \in Elements(ret.rings[2])
          /\ i \in FailedChanges =>
                inputs[2].verts[i] \in Elements(ret.rings[1]) \cap Elements(ret.rings[2])
          /\ i \notin SideChanges =>
                inputs[2].verts[i] \notin Elements(ret.rings[IF InFront(i) THEN 2 ELSE 1])
    /\ Cardinality(SideChanges) % 2 = 0

\* C20 as stated: the two rings hold n + 2k entries for n vertices and k side
\* changes.
C20_RingEntries ==
    pc = "returned" =>
        /\ VerticesRouted
        /\ Len(ret.rings[1]) + Len(ret.rings[2])
              = Len(inputs[2].verts) + 2 * Cardinality(SideChanges)

\* C20: every vertex of the polygon cut lands in the ring of its side, the
\* ring changes sides an even number of times, and the two rings hold
\* n + 2k - f entries for n vertices, k side changes and f of them at which
\* the intersection fails: a failed intersection puts the vertex into both
\* rings and no intersection point into either.
C20_RingEntriesLessFailures ==
    pc = "returned" =>
        /\ VerticesRouted
        /\ Len(ret.rings[1]) + Len(ret.rings[2])
              = Len(inputs[2].verts) + 2 * Cardinality(SideChanges)
                    - Cardinality(FailedChanges)

\* A cut of a polygon that straddles the plane, with a side change whose
\* intersection is found and one whose intersection fails.
C20_Witness ==
    /\ pc = "returned"
    /\ relative_pos(inputs[1], inputs[2]) = 0
    /\ FailedChanges # {}
    /\ SideChanges \ FailedChanges # {}

\* ------------------------------------------------------------------------
\* Fragments that are culled.

\* The polygon MeshConverter builds from a ring of RingVerts.
SmallPolygon(k, verts) == ViewPolygon(<<k>>, verts, <<verts[1][3], 1>>, 0, 1)

\* A direct call depth_sort_bsp(view_polygons, cycle_limit) on a small polygon
\* followed by the plane of ring 15, which becomes the root's plane and cuts
\* the polygon with intersections that fail.
CullInit ==
    /\ pc = "depth_sort_bsp"
    /\ caller = "DepthSorter"
    /\ viewpoint = RegionViewpoint
    /\ \E n \in 3..(MaxRingLen + 1) : \E verts \in RingsOf(n) :
          /\ ~Repeats(verts)
          /\ inputs = <<SmallPolygon(1, verts), InputPolygon(2, RingPlane)>>
          /\ view_polygons = <<SmallPolygon(1, verts), InputPolygon(2, RingPlane)>>
    /\ sorting_heuristic = "heuristic.bbmid"
    /\ cut_conflicts = TRUE
    /\ cycle_limit = MaxCycleLimit
    /\ nodes = <<>>
    /\ leaf_nodes = <<>>
    /\ j = 0
    /\ subdivisions = 0
    /\ f = [open |-> FALSE, content |-> <<>>]
    /\ messages = <<>>
    /\ ret = NoValue
    /\ octree = NoValue

\* Direct calls of cut_conflicting, the calls on the BSP tree of such a list,
\* and the calls on the octree of gen_svg_body.
FragmentInit == RingInit \/ CullInit \/ OctreeInit

FragmentNext ==
    \/ CutConflictingRings
    \/ DepthSortBspStart
    \/ BspPartition
    \/ BspTraverse
    \/ InsertPolygon
    \/ CompressTree
    \/ ResolveConflicts
    \/ GetResolvedPolygons

FragmentSpec == FragmentInit /\ [][FragmentNext]_vars

\* A polygon that is no degenerate fragment: a ring of three vertices or more
\* above the cull threshold.
Sound(polygon) ==
    /\ polygon # <<>>
    /\ Len(polygon.verts) >= 3
    /\ DifferenceSum(polygon.verts, 1) * CULL_STEPS >= 1

AllSound(list) == \A k \in 1..Len(list) : Sound(list[k])

\* The fragments cut_conflicting returns for the polygons of the list that
\* straddle the plane.
ReturnedFragments(plane, list) ==
    UNION {{cut_conflicting(plane, list[k])[1], cut_conflicting(plane, list[k])[2]} :
              k \in {i \in 1..Len(list) : relative_pos(plane, list[i]) = 0}}

InsertedPolygons == SubSeq(inputs, 1, Len(inputs) - Len(view_polygons))

\* The places <<node, index>> of the unresolved lists that hold the polygon.
StoredAt(polygon) ==
    {place \in (1..Len(octree.nodes)) \X (1..MaxPolygons + 1) :
        /\ place[2] <= Len(octree.nodes[place[1]].unresolved)
        /\ octree.nodes[place[1]].unresolved[place[2]] = polygon}

\* The node holds the polygon where the invariant wants it: the node's bounds
\* contain the polygon and no child of the node does.
SmallestContaining(n, polygon) ==
    /\ contains_polygon(octree.nodes[n], polygon)
    /\ ContainingChildren(octree.nodes, n, polygon) = {}

\* C22: before the tree is compressed, every polygon inserted so far is in
\* exactly one place of one unresolved list, in a node whose bounds contain
\* its bounding box and none of whose children contains it; nothing else is
\* stored and no polygon is resolved.
C22_StoredAtSmallestNode ==
    pc = "octree" /\ ~octree.compressed =>
        /\ \A k \in 1..Len(InsertedPolygons) :
              /\ Cardinality(StoredAt(InsertedPolygons[k])) = 1
              /\ \A place \in StoredAt(InsertedPolygons[k]) :
                    SmallestContaining(place[1], InsertedPolygons[k])
        /\ \A n \in 1..Len(octree.nodes) :
              /\ octree.nodes[n].resolved = <<>>
              /\ \A i \in 1..Len(octree.nodes[n].unresolved) :
                    \E k \in 1..Len(InsertedPolygons) :
                        octree.nodes[n].unresolved[i] = InsertedPolygons[k]

\* A tree of three polygons or more, one kept by the root beside its children
\* and one stored two levels down.
C22_Witness ==
    /\ pc = "octree"
    /\ ~octree.compressed
    /\ Len(InsertedPolygons) >= 3
    /\ octree.nodes[1].unresolved # <<>>
    /\ ~octree.nodes[1].nondivided
    /\ \E n \in 1..Len(octree.nodes) :
          octree.nodes[n].depth >= 2 /\ octree.nodes[n].unresolved # <<>>

\* ------------------------------------------------------------------------
\* When the octree subdivides a node.

\* The number of polygons in the unresolved lists of node n and the nodes
\* below it (0 is None).
RECURSIVE HeldBelow(_, _)
HeldBelow(cells, n) ==
    IF n = 0 THEN 0
    ELSE Len(cells[n].unresolved)
         + HeldBelow(cells, cells[n].children[1]) + HeldBelow(cells, cells[n].children[2])
         + HeldBelow(cells, cells[n].children[3]) + HeldBelow(cells, cells[n].children[4])
         + HeldBelow(cells, cells[n].children[5]) + HeldBelow(cells, cells[n].children[6])
         + HeldBelow(cells, cells[n].children[7]) + HeldBelow(cells, cells[n].children[8])

\* The nodes of the tree that a call subdivided: never-subdivided before it,
\* subdivided after it.
SubdividedByCall ==
    {n \in 1..Len(octree.nodes) : octree.nodes[n].nondivided /\ ~octree'.nodes[n].nondivided}

\* C23: a node is subdivided only by an insertion that reaches it while it is
\* never-subdivided and holds a polygon; so, in an uncompressed tree, every
\* never-subdivided node holds at most one polygon and every subdivided node
\* has at least two polygons in its subtree.
C23_SubdividedOnSecondPolygon ==
    /\ [](pc = "octree" /\ ~octree.compressed =>
            \A n \in 1..Len(octree.nodes) :
                IF octree.nodes[n].nondivided
                THEN Len(octree.nodes[n].unresolved) <= 1
                ELSE HeldBelow(octree.nodes, n) >= 2)
    /\ [][pc = "octree" =>
            \A n \in SubdividedByCall :
                /\ ret'.call = "insert_polygon"
                /\ Len(octree.nodes[n].unresolved) = 1
                /\ contains_polygon(octree.nodes[n], Head(view_polygons))]_vars

\* An uncompressed tree in which a node below the root was subdivided, and a
\* never-subdivided node holds a polygon.
C23_Witness ==
    /\ pc = "octree"
    /\ ~octree.compressed
    /\ \E n \in 2..Len(octree.nodes) : ~octree.nodes[n].nondivided
    /\ \E n \in 2..Len(octree.nodes) :
          octree.nodes[n].nondivided /\ Len(octree.nodes[n].unresolved) = 1

\* ------------------------------------------------------------------------
\* The order in which resolve_conflicts resolves the nodes.

\* The parent of node n, its parent, and so on up to the root.
RECURSIVE AncestorsOf(_, _)
AncestorsOf(cells, n) ==
    IF cells[n].parent = 0 THEN {}
    ELSE {cells[n].parent} \cup AncestorsOf(cells, cells[n].parent)

\* The nodes that "for node in nodes" has still to come to after the one it
\* is at.
NodesToCome == {nodes[k] : k \in 2..Len(nodes)}

\* C24: while resolve_conflicts is at a node, every ancestor of the node is
\* still to come, holds in its unresolved list exactly the polygons the
\* insertions stored at it, and has nothing in its resolved list.
C24_AncestorsUnresolved ==
    pc = "resolve_node" /\ nodes # <<>> =>
        \A a \in AncestorsOf(octree.nodes, Head(nodes)) :
            /\ a \in NodesToCome
            /\ octree.nodes[a].resolved = <<>>
            /\ octree.nodes[a].unresolved = BuiltOctree(inputs).nodes[a].unresolved

\* A node below the root is being resolved after a pass that cut one of its
\* polygons, and the root holds a polygon.
C24_Witness ==
    /\ pc = "resolve_node"
    /\ nodes # <<>>
    /\ octree.nodes[Head(nodes)].depth >= 1
    /\ octree.nodes[Head(nodes)].unresolved # <<>>
    /\ j >= 1
    /\ octree.nodes[1].unresolved # <<>>
    /\ \E k \in 1..Len(octree.nodes[Head(nodes)].unresolved) :
          Len(octree.nodes[Head(nodes)].unresolved[k].id) > 1
             \/ octree.nodes[Head(nodes)].unresolved[k].ncut > 0

\* ------------------------------------------------------------------------
\* What a pass of resolve_node writes.

\* A node without its two lists.
Emptied(node) == [node EXCEPT !.unresolved = <<>>, !.resolved = <<>>]

\* The step is a pass of the loop of resolve_node on the node the loop over
\* the nodes is at.
IsResolvePass ==
    pc = "resolve_node" /\ pc' = "resolve_node" /\ nodes # <<>> /\ nodes' = nodes

\* Every other node of the tree is as it was, and so is node n but for its
\* two lists.
OthersUnchanged(n) ==
    /\ Len(octree'.nodes) = Len(octree.nodes)
    /\ octree'.compressed = octree.compressed
    /\ \A m \in 1..Len(octree.nodes) : m # n => octree'.nodes[m] = octree.nodes[m]
    /\ Emptied(octree'.nodes[n]) = Emptied(octree.nodes[n])

\* The polygon is in the unresolved list of node n or of one of its ancestors
\* after the step.
StillUnresolved(n, polygon) ==
    \E m \in {n} \cup AncestorsOf(octree.nodes, n) :
        \E k \in 1..Len(octree'.nodes[m].unresolved) :
            octree'.nodes[m].unresolved[k] = polygon

\* The lists of node n after a pass that found the conflicting polygon, and
\* after one that found none.
ListsAfterPass(n, conflicting) ==
    IF conflicting # <<>>
    THEN /\ octree'.nodes[n].resolved = octree.nodes[n].resolved
         /\ octree'.nodes[n].unresolved =
               Tail(octree.nodes[n].unresolved)
                  \o cut_conflicting(conflicting[1], octree.nodes[n].unresolved[1])[1]
                  \o cut_conflicting(conflicting[1], octree.nodes[n].unresolved[1])[2]
         /\ StillUnresolved(n, conflicting[1])
    ELSE /\ octree'.nodes[n].resolved =
               Append(octree.nodes[n].resolved, octree.nodes[n].unresolved[1])
         /\ octree'.nodes[n].unresolved = Tail(octree.nodes[n].unresolved)

\* C25: a pass of resolve_node leaves every other node, the ancestors too, as
\* it was and writes only the two lists of its own node: on a conflict the
\* head of the unresolved list is removed and its kept fragments are appended
\* to that list, the resolved list and the conflicting polygon staying as
\* they are; without a conflict the head moves to the resolved list.
C25_PassWritesOwnLists ==
    [][IsResolvePass =>
          /\ OthersUnchanged(Head(nodes))
          /\ ListsAfterPass(Head(nodes), Conflicting(octree.nodes, Head(nodes)))]_vars

\* A node below the root has resolved a polygon and holds the back fragment
\* of a cut by a polygon of the root, which the root still holds.
C25_Witness ==
    /\ pc = "resolve_node"
    /\ nodes # <<>>
    /\ octree.nodes[Head(nodes)].depth >= 1
    /\ octree.nodes[Head(nodes)].resolved # <<>>
    /\ octree.nodes[1].unresolved # <<>>
    /\ \E k \in 1..Len(octree.nodes[Head(nodes)].unresolved) :
          Len(octree.nodes[Head(nodes)].unresolved[k].id) > 1

\* ------------------------------------------------------------------------
\* What resolve_conflicts leaves in the tree.

\* id is a prefix of the id of the polygon.
DescendsFrom(polygon, ident) ==
    /\ Len(polygon.id) >= Len(ident)
    /\ SubSeq(polygon.id, 1, Len(ident)) = ident

\* The list holds polygon k of the input as a whole or in fragments: as the
\* polygon itself, never cut, alone; or else as the object of the polygon,
\* cut c times, together with what is left of each of the c back fragments,
\* and so on for every back fragment that was cut again.
Represented(list, k) ==
    /\ \E a \in 1..Len(list) : list[a].id = <<k>>
    /\ \A a \in 1..Len(list) :
          /\ list[a].id = <<k>> /\ list[a].ncut = 0 => list[a] = inputs[k]
          /\ DescendsFrom(list[a], <<k>>) =>
                \A m \in 1..list[a].ncut :
                    \E b \in 1..Len(list) : list[b].id = Append(list[a].id, m)

\* No two places of the list hold the same object.
EachOnce(list) ==
    \A a, b \in 1..Len(list) : a # b => list[a].id # list[b].id

\* The polygon at the head of the node's unresolved list is in conflict with
\* no later polygon of that list and with no unresolved polygon of an
\* ancestor.
ScanFindsNothing(cells, n) ==
    /\ \A k \in 2..Len(cells[n].unresolved) :
          ~in_conflict(cells[n].unresolved[1], cells[n].unresolved[k])
    /\ \A a \in AncestorsOf(cells, n) : \A k \in 1..Len(cells[a].unresolved) :
          ~in_conflict(cells[n].unresolved[1], cells[a].unresolved[k])

\* C26: when resolve_conflicts has returned, no node holds an unresolved
\* polygon and get_resolved_polygons holds every inserted polygon once, as
\* itself if it was never cut and else as the fragments of its cuts; and a
\* pass of resolve_node appends to a resolved list only the head of the
\* node's unresolved list, after a scan of the node and of all its ancestors
\* that found no conflict.
C26_AllResolvedOnce ==
    /\ [](pc = "returned" =>
            /\ \A n \in 1..Len(octree.nodes) : octree.nodes[n].unresolved = <<>>
            /\ EachOnce(get_resolved_polygons(octree))
            /\ \A k \in 1..Len(inputs) : Represented(get_resolved_polygons(octree), k)
            /\ \A a \in 1..Len(get_resolved_polygons(octree)) :
                  get_resolved_polygons(octree)[a].id[1] \in 1..Len(inputs))
    /\ [][\A n \in 1..Len(octree.nodes) :
            octree'.nodes[n].resolved # octree.nodes[n].resolved =>
                /\ IsResolvePass
                /\ n = Head(nodes)
                /\ octree'.nodes[n].resolved =
                      Append(octree.nodes[n].resolved, octree.nodes[n].unresolved[1])
                /\ ScanFindsNothing(octree.nodes, n)]_vars

\* resolve_conflicts has returned a polygon that was never cut beside the
\* fragments of one that was cut twice, out of more than one node.
C26_Witness ==
    /\ pc = "returned"
    /\ \E n \in 2..Len(octree.nodes) : octree.nodes[n].resolved # <<>>
    /\ octree.nodes[1].resolved # <<>>
    /\ \E a, b \in 1..Len(get_resolved_polygons(octree)) :
          /\ get_resolved_polygons(octree)[a].ncut = 0
          /\ Len(get_resolved_polygons(octree)[a].id) = 1
          /\ get_resolved_polygons(octree)[b].ncut >= 2

\* ------------------------------------------------------------------------
\* The BSP sort of an empty list.

\* C27: for an empty polygon list depth_sort_bsp returns a root and the
\* traversal of that root ends without an error, with an empty output list.
C27_EmptyListCompletes ==
    inputs = <<>> /\ cut_conflicts =>
        /\ pc # "IndexError"
        /\ pc \in {"write", "returned"} => view_polygons = <<>>

\* ------------------------------------------------------------------------
\* How many passes a BSP build can count.

\* The number of polygons in the list of a child of a node after the step (0
\* for no child).
ReceivedBy(child) == IF child = 0 THEN 0 ELSE Len(nodes'[child].polygon_list)

\* The nodes that the step subdivides, and the number of polygons each held:
\* the root in depth_sort_bsp, leaves with more than one polygon in a pass of
\* bsp_partition.
SubdividedByStep ==
    IF pc = "depth_sort_bsp"
    THEN IF pc' = "bsp_partition" THEN {1} ELSE {}
    ELSE IF pc = "bsp_partition" /\ nodes' # nodes
    THEN {n \in 1..Len(nodes) : nodes[n].is_leaf /\ ~nodes'[n].is_leaf}
    ELSE {}

HeldBefore(n) ==
    IF pc = "depth_sort_bsp" THEN Len(view_polygons) ELSE Len(nodes[n].polygon_list)

\* C28: each child that a subdivision creates receives fewer polygons than
\* the subdivided node held; the counter of passes of a build over N polygons
\* never exceeds max(0, N - 2); and a build with N <= cycle_limit + 1 does not
\* raise RecursionError.
C28_PassesBoundedByPolygons ==
    /\ [](/\ j <= Max2(0, Len(inputs) - 2)
          /\ Len(inputs) <= cycle_limit + 1 => pc # "RecursionError")
    /\ [][\A n \in SubdividedByStep :
            /\ ReceivedBy(nodes'[n].front_node) < HeldBefore(n)
            /\ ReceivedBy(nodes'[n].back_node) < HeldBefore(n)
            /\ nodes'[n].front_node # 0 \/ nodes'[n].back_node # 0]_vars

\* A build over four polygons under a cycle limit of three returned its tree
\* after two counted passes, a child having received three polygons of the
\* four.
C28_Witness ==
    /\ TreeReturned
    /\ cut_conflicts
    /\ Len(inputs) = 4
    /\ cycle_limit = 3
    /\ j = 2

\* ------------------------------------------------------------------------
\* The success message of main_export.

SuccessShown ==
    \E k \in 1..Len(messages) : messages[k].title = "Success"

\* C29: the success message is shown only when gen_svg_body ran to its end:
\* after a ValueError, a RecursionError or a KeyboardInterrupt out of
\* gen_svg_body no success message is displayed.
C29_SuccessOnlyWhenComplete ==
    caller = "main_export" /\ SuccessShown =>
        /\ ret = NoValue
        /\ j < cycle_limit
        /\ f.content # <<>>

\* ------------------------------------------------------------------------
\* insert_polygon call by call of add_polygon.

\* The depth of calls at which the interpreter raises RecursionError
\* (sys.getrecursionlimit(), 1000 by default), scaled to the cube of 8 pixels:
\* the bounds of the nodes down to this depth are exact halves.
RecursionLimit == 5

PointRings == {16, 19, 20, 21, 22}

\* An octree over a cube of 8 pixels and the polygons still to insert; ret
\* holds the node that add_polygon is called on and the depth of the call.
AddInit ==
    /\ pc = "octree"
    /\ caller = "Octree"
    /\ \E l \in RingLists(PointRings, MaxPolygons) :
          /\ inputs = PolygonList(l)
          /\ view_polygons = PolygonList(l)
    /\ octree = Octree(0, Region.width, 0, Region.height, 0, Region.width)
    /\ sorting_heuristic = "bbmin"
    /\ cut_conflicts = TRUE
    /\ cycle_limit = 1
    /\ viewpoint = RegionViewpoint
    /\ nodes = <<>>
    /\ leaf_nodes = <<>>
    /\ j = 0
    /\ subdivisions = 0
    /\ f = [open |-> FALSE, content |-> <<>>]
    /\ messages = <<>>
    /\ ret = [call |-> "Octree", node |-> 0, frames |-> 0]

\* insert_polygon: "self.root.add_polygon(view_polygon)" on the next polygon
\* of the list.
InsertPolygonCall ==
    /\ pc = "octree"
    /\ view_polygons # <<>>
    /\ ~octree.compressed
    /\ pc' = "add_polygon"
    /\ ret' = [call |-> "add_polygon", node |-> 1, frames |-> 1]
    /\ UNCHANGED <<octree, config, view_polygons, tree, output>>

\* "self.unresolved.append(view_polygon)" and the return of every call of
\* add_polygon up to insert_polygon.
AddStored(cells, n) ==
    /\ octree' = [octree EXCEPT !.nodes = [cells EXCEPT ![n].unresolved =
                                              Append(@, Head(view_polygons))]]
    /\ view_polygons' = Tail(view_polygons)
    /\ ret' = [call |-> "insert_polygon", node |-> n, frames |-> 0]
    /\ pc' = "octree"

\* "child.add_polygon(view_polygon)" on child k of node n, which the
\* interpreter refuses at its recursion limit.
AddToChildCall(cells, n, k) ==
    /\ octree' = [octree EXCEPT !.nodes = cells]
    /\ view_polygons' = view_polygons
    /\ IF ret.frames >= RecursionLimit
       THEN pc' = "RecursionError" /\ ret' = ret
       ELSE /\ pc' = "add_polygon"
            /\ ret' = [ret EXCEPT !.node = cells[n].children[k], !.frames = @ + 1]

\* The loop over the children of node n, subdivided if need be.
AddBelow(cells, n) ==
    IF FirstContaining(cells, n, Head(view_polygons)) = 0
    THEN AddStored(cells, n)
    ELSE AddToChildCall(cells, n, FirstContaining(cells, n, Head(view_polygons)))

\* One call of OctreeNode.add_polygon, on node ret.node.
AddPolygonCall ==
    /\ pc = "add_polygon"
    /\ IF octree.nodes[ret.node].nondivided /\ Len(octree.nodes[ret.node].unresolved) = 0
       THEN AddStored(octree.nodes, ret.node)
       ELSE IF octree.nodes[ret.node].nondivided
       THEN \E cells \in {subdivide(octree.nodes, ret.node)} : AddBelow(cells, ret.node)
       ELSE AddBelow(octree.nodes, ret.node)
    /\ subdivisions' = IF Len(octree'.nodes) > Len(octree.nodes)
                       THEN subdivisions + 1 ELSE subdivisions
    /\ UNCHANGED <<config, nodes, leaf_nodes, j, output>>

AddNext == InsertPolygonCall \/ AddPolygonCall

AddSpec == AddInit /\ [][AddNext]_vars

\* C30: every call of insert_polygon returns, with the polygon stored in an
\* empty never-subdivided node or in a node none of whose children contains
\* it; no chain of add_polygon calls runs into the recursion limit, whatever
\* the bounding boxes of the polygons.
C30_InsertionStops ==
    /\ pc # "RecursionError"
    /\ ret.call = "insert_polygon" =>
          /\ octree.nodes[ret.node].unresolved # <<>>
          /\ \A k \in 1..Len(octree.nodes[ret.node].unresolved) :
                ContainingChildren(octree.nodes, ret.node,
                                   octree.nodes[ret.node].unresolved[k]) = {}

====
